---- MODULE Spec2Model ----
(***************************************************************************)
(* Model of the security core of FreelanceOS (backend/src/utils):          *)
(*   - advanced-rate-limit.ts : sliding-window rate limiter and IP blocker *)
(*   - credentials-security   : SecureCredentialsManager (secret store)    *)
(*   - encryption             : encryptPII / decryptPII (PII cipher)       *)
(*   - xss-protection.ts      : sanitizeXSS, sanitizeObjectXSS             *)
(*   - path-traversal-protection.ts : sanitizeFilePath, createSecurePath   *)
(*   - cors-security.ts       : isOriginAllowed, corsSecurityMiddleware    *)
(*   - client.service         : ClientService (create, update, decrypt)    *)
(*   - secure-error-handler.ts: secureErrorHandler, process listeners      *)
(*   - auth.service.ts        : AuthService (tokens, refresh, logout)      *)
(* Each subsystem has its own specification over the shared variables:     *)
(*   Spec        rate limiter, interleaved requests, cache failures        *)
(*   SpecSeq     rate limiter, one request at a time, cache always up      *)
(*   SpecSecrets secret store with its rotation timers                     *)
(*   SpecPII     PII cipher applied to bounded strings                     *)
(*   SpecXSS     calls of sanitizeXSS, the patterns keeping their state    *)
(*   SpecPaths   calls of sanitizeFilePath and createSecurePath            *)
(*   SpecDecrypt one call of a decrypt path on a foreign value             *)
(*   SpecClients createClient and updateClient on the client table         *)
(*   SpecCors    isOriginAllowed, and a request through the hooks          *)
(*   SpecEmails  createClient and updateClient on clients with e-mails     *)
(*   SpecMarkup  createClient and updateClient given markup                *)
(*   SpecOutcome rate limiter followed by the route handler's outcome      *)
(*   SpecErrors  secureErrorHandler and the process-level listeners        *)
(*   SpecAuth    logins, interleaved refreshes and logouts                 *)
(*   SpecJwt     signing and verifying while the secrets rotate            *)
(***************************************************************************)
EXTENDS Integers, Naturals, Sequences, FiniteSets, Bags, TLC

(***************************************************************************)
(* Bounds of the model.                                                    *)
(*                                                                         *)
(* Time is counted in milliseconds as in the source (Date.now()); the      *)
(* clock advances in steps of one minute (TickMs), the granularity of      *)
(* every window and block duration of RATE_LIMITS.                         *)
(* The `auth' window/block lengths and every maxRequests are scaled down   *)
(* (source: 15 min / 30 min / 5, 10, 15|60 requests) so that a window can  *)
(* fill, a block can be created and can expire inside MaxTicks minutes.    *)
(***************************************************************************)
MaxTicks == 3
AuthWindowMin == 2
AuthBlockMin == 3
AuthMaxRequests == 2
CreateMaxRequests == 3
MaxRandom == 6
MaxStoreMs == 2
MaxLen == 3
ReadMaxRequests == 1
MaxRequests == 3

TickMs == 60 * 1000
MaxTime == MaxTicks * TickMs

(***************************************************************************)
(* Inputs.                                                                 *)
(***************************************************************************)
Procs == {1, 2}                  \* request handlers that may be in flight at once
Clients == {"1.2.3.4"}           \* request.ip
NoUser == "anonymous"            \* request.user is undefined in the global preHandler hook
\* request.url as its path segments ("/api/v1/auth/login" ...)
UrlLogin == <<"api", "v1", "auth", "login">>
UrlRegister == <<"api", "v1", "auth", "register">>
UrlClients == <<"api", "v1", "clients">>
Endpoints ==
  { [method |-> "POST", url |-> UrlLogin],
    [method |-> "POST", url |-> UrlRegister],
    [method |-> "GET", url |-> UrlClients] }
Urls == {e.url : e \in Endpoints}
\* the endpoints requested when requests interleave: one `auth' URL, one `read' URL
InterleavedEndpoints == {e \in Endpoints : e.url # UrlRegister}

(***************************************************************************)
(* advanced-rate-limit.ts                                                  *)
(***************************************************************************)
CeilDiv(a, b) == (a + b - 1) \div b

\* RATE_LIMITS: windowMs in milliseconds, blockDuration in seconds
RATE_LIMITS ==
  [ auth    |-> [windowMs |-> AuthWindowMin * 60 * 1000, maxRequests |-> AuthMaxRequests,
                 blockDuration |-> AuthBlockMin * 60],
    create  |-> [windowMs |-> 60 * 1000, maxRequests |-> CreateMaxRequests,
                 blockDuration |-> 5 * 60],
    read    |-> [windowMs |-> 60 * 1000, maxRequests |-> ReadMaxRequests,
                 blockDuration |-> 2 * 60],
    update  |-> [windowMs |-> 60 * 1000, maxRequests |-> 30, blockDuration |-> 3 * 60],
    delete  |-> [windowMs |-> 60 * 1000, maxRequests |-> 5, blockDuration |-> 10 * 60],
    general |-> [windowMs |-> 60 * 1000, maxRequests |-> 20, blockDuration |-> 5 * 60] ]

Categories == DOMAIN RATE_LIMITS

\* url.includes('/auth/'): a path segment "auth" followed by a further segment
UrlIncludesAuth(url) == \E i \in 1..(Len(url) - 1) : url[i] = "auth"

getRateLimitType(method, url) ==
  IF UrlIncludesAuth(url) THEN "auth"
  ELSE CASE method = "POST" -> "create"
         [] method = "GET" -> "read"
         [] method \in {"PUT", "PATCH"} -> "update"
         [] method = "DELETE" -> "delete"
         [] OTHER -> "general"

\* `ratelimit:${ip}:${endpoint}` (+ `:user:${userId}`): the endpoint passed is request.url
generateRateLimitKey(ip, endpoint, userId) == <<ip, endpoint, userId>>

\* `blocked:${ip}`
generateBlockKey(ip) == ip

Keys == {generateRateLimitKey(ip, u, NoUser) : ip \in Clients, u \in Urls}

VARIABLES
  clock,      \* wall clock in ms (Date.now(), and the cache server's clock)
  window,     \* cache: sorted set per rate-limit key, a bag of entries
  winExp,     \* cache: expiry time of each rate-limit key (0: no TTL set)
  block,      \* cache: the BlockEntry per block key
  pc,         \* per handler: the await it is suspended at
  rq,         \* per handler: the request (ip, method, url)
  now,        \* per handler: const now = Date.now()
  currentCount, \* per handler: const currentCount = await redis.zcard(...)
  out,        \* what the latest step sent and logged (reply.code().send(), loggers)
  degraded,   \* history, per handler: a cache command of its request has failed
  peak,       \* history, per rate-limit key: most requests ever in flight on it at once
  started     \* history: number of requests received, counted up to MaxRequests

rlVars ==
  <<clock, window, winExp, block, pc, rq, now, currentCount, out, degraded, peak, started>>

\* credentials-security: the SecureCredentialsManager instance and the runtime's timers
VARIABLES
  secrets,        \* this.secrets: Map name -> EncryptedSecret
  rotationTimers, \* this.rotationTimers: Map name -> timer handle (0: no entry)
  timers,         \* the runtime's pending timers: [id, name, due]
  nextRandom,     \* number of random draws made so far
  storeClock,     \* new Date(), in ms since the manager was constructed
  cleanedUp,      \* history: cleanup() has been called
  res             \* the latest Secret Store call and what it returned

ssVars == <<secrets, rotationTimers, timers, nextRandom, storeClock, cleanedUp, res>>

\* encryption: one use of the PII cipher
VARIABLES
  piiPc,        \* which calls have been made: "idle", "encrypted", "decrypted", "twice"
  piiPlain,     \* the plaintext given to encryptPII, a string as UTF-16 code units
  piiToken,     \* what encryptPII(piiPlain) returned
  piiDecrypted, \* what decryptPII(piiToken) returned
  piiToken2,    \* what a second encryptPII(piiPlain) returned
  piiDraws      \* number of crypto.randomBytes(IV_LENGTH) draws made so far

piiVars == <<piiPc, piiPlain, piiToken, piiDecrypted, piiToken2, piiDraws>>

\* xss-protection, path-traversal-protection: the RegExp objects of the two modules
VARIABLES
  xssLastIndex,   \* lastIndex of each RegExp of XSS_PATTERNS
  pathLastIndex,  \* lastIndex of each RegExp of DANGEROUS_PATH_PATTERNS
  sanRes          \* the latest sanitizer call and what it returned

sanVars == <<xssLastIndex, pathLastIndex, sanRes>>

\* encryption: one call of a decrypt path on a value encryptPII did not make
VARIABLES
  decRes          \* the latest such call: its input and what it returned

\* client.service: the client table and the latest call of ClientService
VARIABLES
  db,             \* table client: the row of each id (NoClient: no such row)
  clientDraws,    \* number of crypto.randomBytes(IV_LENGTH) draws made by the service
  clientRes       \* the latest call and what it returned

clientVars == <<db, clientDraws, clientRes>>

\* cors-security: the configuration, isOriginAllowed, and the request being served
VARIABLES
  config,         \* NODE_ENV and FRONTEND_URL of config/env.ts (NoConfig: not loaded)
  corsCalls,      \* calls of testCorsOrigin made and requests received
  corsRes,        \* the latest call of isOriginAllowed: the origin and the verdict
  request,        \* the request being served
  stage,          \* the hook the request has reached ("done": a reply was sent)
  hookTrace,      \* the hooks and origin checks the request went through, in order
  reply           \* the reply sent (NoReply: none yet)

corsVars == <<config, corsCalls, corsRes, request, stage, hookTrace, reply>>

\* routes/auth.ts: what the route handlers behind the limiter answered
VARIABLES
  served,         \* the latest request a route handler has answered, and how
  authFailed      \* history: some request to an auth endpoint has ended in failure

outcomeVars == <<served, authFailed>>

\* secure-error-handler: the errors handled and what became of them
VARIABLES
  errEnv,         \* env.NODE_ENV as read when the module was loaded
  errCount,       \* SecureError objects created so far (generateErrorId)
  handled,        \* the latest error handled: where it came from, the error, the SecureError
  errReply,       \* the response sent for it (NoErrReply: none)
  errLogged,      \* the entry written to secureLogger for it (NoLogEntry: none)
  exitTimers,     \* pending setTimeout(() => process.exit(1), 1000)
  exited          \* process.exit was called

errVars == <<errEnv, errCount, handled, errReply, errLogged, exitTimers, exited>>

\* auth.service: the refresh tokens in the cache and the calls of AuthService
VARIABLES
  authClock,      \* wall clock in seconds (the iat of the tokens signed)
  refreshCache,   \* cache: the value of refresh_token:${userId} (NoEntry: no key)
  rpc,            \* per refreshAccessToken call: the await it is suspended at
  rtok,           \* per refreshAccessToken call: the token it was given
  issued,         \* history: the tokens returned to clients
  authRes,        \* the latest call of AuthService that returned or threw
  jwtUsed,        \* the key handed to the latest jwt.sign or jwt.verify
  refreshedOnce,  \* history: tokens with which a refreshAccessToken has succeeded
  refreshedTwice, \* history: tokens with which two refreshAccessToken have succeeded
  loggedOut       \* history, per user: logout has completed and no login since

authVars ==
  <<authClock, refreshCache, rpc, rtok, issued, authRes, jwtUsed, refreshedOnce,
    refreshedTwice, loggedOut>>

vars == <<rlVars, ssVars, piiVars, sanVars, decRes, clientVars, corsVars, outcomeVars, errVars, authVars>>
\* what each subsystem leaves alone
outsideRateLimit == <<ssVars, piiVars, sanVars, decRes, clientVars, corsVars, outcomeVars, errVars, authVars>>
outsideSecrets == <<rlVars, piiVars, sanVars, decRes, clientVars, corsVars, outcomeVars, errVars, authVars>>
outsidePII == <<rlVars, ssVars, sanVars, decRes, clientVars, corsVars, outcomeVars, errVars, authVars>>
outsideSanitizers == <<rlVars, ssVars, piiVars, decRes, clientVars, corsVars, outcomeVars, errVars, authVars>>
outsideDecrypt == <<rlVars, ssVars, piiVars, sanVars, clientVars, corsVars, outcomeVars, errVars, authVars>>
outsideClients == <<rlVars, ssVars, piiVars, decRes, corsVars, outcomeVars, errVars, authVars>>
outsideCors == <<rlVars, ssVars, piiVars, decRes, clientVars, outcomeVars, errVars, authVars>>
outsideOutcome == <<ssVars, piiVars, sanVars, decRes, clientVars, corsVars, errVars, authVars>>
outsideErrors == <<rlVars, ssVars, piiVars, sanVars, decRes, clientVars, corsVars, outcomeVars, authVars>>
outsideAuth == <<rlVars, ssVars, piiVars, sanVars, decRes, clientVars, corsVars, outcomeVars, errVars>>

NoBlock == [exists |-> FALSE, blockedAt |-> 0, reason |-> "", duration |-> 0, expireAt |-> 0]
NoRequest == [ip |-> "", method |-> "", url |-> <<>>]
\* a step that sends nothing and logs nothing
Quiet ==
  [proc |-> 0, req |-> NoRequest, code |-> 0, error |-> "", retryAfter |-> 0,
   remaining |-> 0 - 1, events |-> {}, cacheError |-> FALSE, purged |-> 0]

limitTypeOf(r) == getRateLimitType(r.method, r.url)
limitsOf(r) == RATE_LIMITS[limitTypeOf(r)]
rateLimitKeyOf(r) == generateRateLimitKey(r.ip, r.url, NoUser)

\* redis.exists(blockKey): 1 when the key is there (expired keys are removed by Tick)
RedisExists(ip) == IF block[generateBlockKey(ip)].exists THEN 1 ELSE 0

\* faulty variant of isIPBlocked, for C3: the block key is never seen
isIPBlockedNever(ip, up) == FALSE

\* isIPBlocked: blocked === 1 when the command succeeds, false when it throws
isIPBlocked(ip, up) == IF up THEN RedisExists(ip) = 1 ELSE FALSE

\* faulty variant of the purge, for C4: nothing is removed
ZremrangebyscoreNothing(bag, max) == bag

\* redis.zremrangebyscore(key, '-inf', max): drops the entries with score <= max
Zremrangebyscore(bag, max) ==
  LET keep == {e \in DOMAIN bag : e.score > max}
  IN [e \in keep |-> bag[e]]

\* redis.zcard(key)
Zcard(bag) == BagCardinality(bag)

\* redis.zadd(key, score, member): the member `${now}-${Math.random()}` is new each time
Zadd(bag, score) == bag (+) SetToBag({[score |-> score]})

\* const windowStart = now - limits.windowMs
windowStartOf(t, limits) == t - limits.windowMs

\* faulty variant of the limit test, for C6: one request too many passes
limitExceededLate(count, limits) == count > limits.maxRequests

\* the limit test of line 233
limitExceeded(count, limits) == count >= limits.maxRequests

\* const retryAfter = Math.ceil(limits.windowMs / 1000)
retryAfterOf(limits) == CeilDiv(limits.windowMs, 1000)

\* the block entry written by blockIP: redis.setex(blockKey, durationSeconds, JSON...)
blockEntry(durationSeconds, reason) ==
  [exists |-> TRUE, blockedAt |-> clock, reason |-> reason,
   duration |-> durationSeconds, expireAt |-> clock + durationSeconds * 1000]

InFlight == {q \in Procs : pc[q] # "idle"}
InFlightOn(k) == {q \in InFlight : rateLimitKeyOf(rq[q]) = k}
\* requests between their zcard and their zadd on key k
Pending(k) == {q \in Procs : pc[q] = "zadd" /\ rateLimitKeyOf(rq[q]) = k}

\* the handler returns: its locals are gone
Return(p) ==
  /\ pc' = [pc EXCEPT ![p] = "idle"]
  /\ rq' = [rq EXCEPT ![p] = NoRequest]
  /\ now' = [now EXCEPT ![p] = 0]
  /\ currentCount' = [currentCount EXCEPT ![p] = 0]
  /\ degraded' = [degraded EXCEPT ![p] = FALSE]

\* faulty variant of the catch, for C5: the request is refused when the cache fails
FailClosed(p) ==
  /\ out' = [Quiet EXCEPT !.proc = p, !.req = rq[p], !.code = 429, !.cacheError = TRUE,
                          !.error = "RATE_LIMIT_EXCEEDED",
                          !.events = {"RATE_LIMIT_MIDDLEWARE_ERROR"}]
  /\ Return(p)

\* the catch of lines 269-276: log, send nothing, the request goes on (fail open)
FailOpen(p) ==
  /\ out' = [Quiet EXCEPT !.proc = p, !.req = rq[p], !.cacheError = TRUE,
                          !.events = {"RATE_LIMIT_MIDDLEWARE_ERROR"}]
  /\ Return(p)

InitRateLimit ==
  /\ clock = 0
  /\ window = [k \in Keys |-> EmptyBag]
  /\ winExp = [k \in Keys |-> 0]
  /\ block = [ip \in Clients |-> NoBlock]
  /\ pc = [p \in Procs |-> "idle"]
  /\ rq = [p \in Procs |-> NoRequest]
  /\ now = [p \in Procs |-> 0]
  /\ currentCount = [p \in Procs |-> 0]
  /\ out = Quiet
  /\ degraded = [p \in Procs |-> FALSE]
  /\ peak = [k \in Keys |-> 0]
  /\ started = 0

\* a request arrives and the middleware is entered (lines 184-188); the handlers
\* are interchangeable, the free one with the least number takes the request
Start(p, ip, ep) ==
  /\ pc[p] = "idle"
  /\ \A q \in Procs : q < p => pc[q] # "idle"
  /\ pc' = [pc EXCEPT ![p] = "isBlocked"]
  /\ rq' = [rq EXCEPT ![p] = [ip |-> ip, method |-> ep.method, url |-> ep.url]]
  /\ LET k == generateRateLimitKey(ip, ep.url, NoUser)
         n == Cardinality(InFlightOn(k)) + 1
     IN peak' = [peak EXCEPT ![k] = IF n > @ THEN n ELSE @]
  /\ started' = IF started < MaxRequests THEN started + 1 ELSE started
  /\ out' = Quiet
  /\ UNCHANGED <<clock, window, winExp, block, now, currentCount, degraded>>
  /\ UNCHANGED outsideRateLimit

\* lines 196-224: await isIPBlocked(ip); blocked: 429; else read the clock
CheckBlocked(p, up) ==
  /\ pc[p] = "isBlocked"
  /\ IF isIPBlocked(rq[p].ip, up)
       THEN /\ out' = [Quiet EXCEPT !.proc = p, !.req = rq[p], !.code = 429,
                          !.error = "IP_TEMPORARILY_BLOCKED", !.retryAfter = 300,
                          !.events = {"ACCESS_DENIED"}]
            /\ Return(p)
       ELSE /\ out' = IF up THEN Quiet
                      ELSE [Quiet EXCEPT !.proc = p, !.req = rq[p], !.cacheError = TRUE,
                               !.events = {"RATE_LIMIT_BLOCK_CHECK_ERROR"}]
            /\ now' = [now EXCEPT ![p] = clock]
            /\ pc' = [pc EXCEPT ![p] = "zrem"]
            /\ degraded' = [degraded EXCEPT ![p] = ~up]
            /\ UNCHANGED <<rq, currentCount>>
  /\ UNCHANGED <<clock, window, winExp, block, peak, started>>
  /\ UNCHANGED outsideRateLimit

\* line 227: await redis.zremrangebyscore(rateLimitKey, '-inf', windowStart)
PurgeWindow(p, up) ==
  /\ pc[p] = "zrem"
  /\ IF up
       THEN LET k == rateLimitKeyOf(rq[p])
                kept == Zremrangebyscore(window[k], windowStartOf(now[p], limitsOf(rq[p])))
            IN /\ window' = [window EXCEPT ![k] = kept]
               \* a sorted set left empty is removed with its TTL
               /\ winExp' = [winExp EXCEPT ![k] = IF kept = EmptyBag THEN 0 ELSE @]
               /\ pc' = [pc EXCEPT ![p] = "zcard"]
               /\ out' = [Quiet EXCEPT !.proc = p, !.req = rq[p],
                             !.purged = Zcard(window[k]) - Zcard(kept)]
               /\ UNCHANGED <<rq, now, currentCount, degraded>>
       ELSE /\ FailOpen(p)
            /\ UNCHANGED <<window, winExp>>
  /\ UNCHANGED <<clock, block, peak, started>>
  /\ UNCHANGED outsideRateLimit

\* lines 230-237: await redis.zcard(rateLimitKey) and the limit test
CountWindow(p, up) ==
  /\ pc[p] = "zcard"
  /\ IF up
       THEN LET count == Zcard(window[rateLimitKeyOf(rq[p])])
            IN /\ currentCount' = [currentCount EXCEPT ![p] = count]
               /\ pc' = [pc EXCEPT ![p] =
                     IF limitExceeded(count, limitsOf(rq[p])) THEN "setex" ELSE "zadd"]
               /\ out' = Quiet
               /\ UNCHANGED <<rq, now, degraded>>
       ELSE FailOpen(p)
  /\ UNCHANGED <<clock, window, winExp, block, peak, started>>
  /\ UNCHANGED outsideRateLimit

\* lines 235-256: await blockIP(...) (its own try/catch), then the 429
BlockAndReject(p, up) ==
  /\ pc[p] = "setex"
  /\ block' = IF up THEN [block EXCEPT ![generateBlockKey(rq[p].ip)] =
                            blockEntry(limitsOf(rq[p]).blockDuration, limitTypeOf(rq[p]))]
              ELSE block
  /\ out' = [Quiet EXCEPT !.proc = p, !.req = rq[p], !.code = 429,
                !.error = "RATE_LIMIT_EXCEEDED",
                !.retryAfter = retryAfterOf(limitsOf(rq[p])),
                !.cacheError = ~up,
                !.events = IF up THEN {"IP_BLOCKED_RATE_LIMIT", "SUSPICIOUS_ACTIVITY"}
                           ELSE {"RATE_LIMIT_BLOCK_ERROR", "SUSPICIOUS_ACTIVITY"}]
  /\ Return(p)
  /\ UNCHANGED <<clock, window, winExp, peak, started>>
  /\ UNCHANGED outsideRateLimit

\* line 260: await redis.zadd(rateLimitKey, now, `${now}-${Math.random()}`)
RecordRequest(p, up) ==
  /\ pc[p] = "zadd"
  /\ IF up
       THEN LET k == rateLimitKeyOf(rq[p])
            IN /\ window' = [window EXCEPT ![k] = Zadd(@, now[p])]
               /\ pc' = [pc EXCEPT ![p] = "expire"]
               /\ out' = Quiet
               /\ UNCHANGED <<rq, now, currentCount, degraded>>
       ELSE /\ FailOpen(p)
            /\ window' = window
  /\ UNCHANGED <<clock, winExp, block, peak, started>>
  /\ UNCHANGED outsideRateLimit

\* lines 261-267: await redis.expire(rateLimitKey, ceil(windowMs/1000)), then the headers
RefreshTtl(p, up) ==
  /\ pc[p] = "expire"
  /\ IF up
       THEN LET k == rateLimitKeyOf(rq[p])
            IN /\ winExp' = [winExp EXCEPT ![k] =
                     IF window[k] = EmptyBag THEN 0
                     ELSE clock + CeilDiv(limitsOf(rq[p]).windowMs, 1000) * 1000]
               /\ out' = [Quiet EXCEPT !.proc = p, !.req = rq[p],
                     !.remaining = limitsOf(rq[p]).maxRequests - currentCount[p] - 1]
               /\ Return(p)
       ELSE /\ FailOpen(p)
            /\ winExp' = winExp
  /\ UNCHANGED <<clock, window, block, peak, started>>
  /\ UNCHANGED outsideRateLimit

\* one minute passes; the cache drops the keys whose TTL has run out
Tick ==
  /\ clock < MaxTime
  /\ clock' = clock + TickMs
  /\ block' = [ip \in Clients |->
       IF block[ip].exists /\ block[ip].expireAt <= clock' THEN NoBlock ELSE block[ip]]
  /\ window' = [k \in Keys |->
       IF winExp[k] # 0 /\ winExp[k] <= clock' THEN EmptyBag ELSE window[k]]
  /\ winExp' = [k \in Keys |->
       IF winExp[k] # 0 /\ winExp[k] <= clock' THEN 0 ELSE winExp[k]]
  /\ out' = Quiet
  /\ UNCHANGED <<pc, rq, now, currentCount, degraded, peak, started>>
  /\ UNCHANGED outsideRateLimit

\* one step of handler p; `up' tells whether its cache command succeeds
Step(p, up) ==
  \/ CheckBlocked(p, up)
  \/ PurgeWindow(p, up)
  \/ CountWindow(p, up)
  \/ BlockAndReject(p, up)
  \/ RecordRequest(p, up)
  \/ RefreshTtl(p, up)


(***************************************************************************)
(* credentials-security: SecureCredentialsManager                          *)
(***************************************************************************)
SecretNames == {"jwt_primary", "api"}
SecretTypes == {"jwt", "api_key"}

\* SECRET_CONFIG; rotationInterval is 30 * 24 * 60 * 60 * 1000 ms, held here in seconds
SECRET_CONFIG ==
  [algorithm |-> "aes-256-gcm", keyLength |-> 32, ivLength |-> 16, tagLength |-> 16,
   rotationIntervalSec |-> 30 * 24 * 60 * 60]

\* crypto.scryptSync(config.JWT_SECRET, 'secret-salt', keyLength)
MASTER_KEY == [secret |-> "JWT_SECRET", salt |-> "secret-salt", length |-> SECRET_CONFIG.keyLength]
SecretAAD == "FreelanceOS-Secret"

\* secret values: the configured one, those a caller stores, those generateStrongSecret draws
NullValue == [src |-> "null", type |-> "", id |-> 0]
ConfigJwtSecret == [src |-> "config", type |-> "", id |-> 0]
GivenValues == {[src |-> "given", type |-> "", id |-> 1]}

\* faulty variant of generateStrongSecret, for C7: the same value at every draw
generateStrongSecretFixed(type, r) == [src |-> "random", type |-> type, id |-> 0]

\* generateStrongSecret(type): built from crypto.randomBytes / randomUUID / randomInt;
\* r is the draw, a number no earlier draw has given
generateStrongSecret(type, r) == [src |-> "random", type |-> type, id |-> r]

\* encryptSecret: the cipher is keyed by MASTER_KEY alone; the random iv is stored, not used
encryptSecret(plaintext, r) ==
  [encryptedValue |-> [key |-> MASTER_KEY, aad |-> SecretAAD, data |-> plaintext],
   iv |-> r,
   tag |-> [key |-> MASTER_KEY, aad |-> SecretAAD, mac |-> plaintext]]

\* decryptSecret: throws (ok = FALSE) when key, AAD or tag do not fit the ciphertext
decryptSecret(encryptedValue, iv, tag) ==
  IF /\ encryptedValue.key = MASTER_KEY /\ encryptedValue.aad = SecretAAD
     /\ tag.key = MASTER_KEY /\ tag.aad = SecretAAD /\ tag.mac = encryptedValue.data
    THEN [ok |-> TRUE, value |-> encryptedValue.data]
    ELSE [ok |-> FALSE, value |-> NullValue]

\* setTimeout(callback, delay): the runtime keeps a delay as a 32-bit signed count of
\* milliseconds; a delay above 2^31 - 1 ms is set to 1 ms
TimeoutMaxSec == (2^30 - 1 + 2^30) \div 1000
setTimeoutDelayMs(delaySec) == IF delaySec > TimeoutMaxSec THEN 1 ELSE delaySec * 1000

NoMetadata ==
  [type |-> "", createdAt |-> 0, lastRotatedAt |-> 0, rotationCount |-> 0,
   isActive |-> FALSE, version |-> 0]
\* this.secrets.get(name) === undefined
NoSecret ==
  [present |-> FALSE, encryptedValue |-> [key |-> MASTER_KEY, aad |-> "", data |-> NullValue],
   iv |-> 0, tag |-> [key |-> MASTER_KEY, aad |-> "", mac |-> NullValue],
   metadata |-> NoMetadata]
NoRes == [op |-> "", name |-> "", ok |-> FALSE, value |-> NullValue, byTimer |-> FALSE]

\* a timer handle that names no pending timer and is held nowhere
NewTimerId(tm, rt) ==
  CHOOSE i \in 1..(2 * Cardinality(SecretNames) + 1) :
    /\ i \notin {t.id : t \in tm} \cup {rt[n] : n \in SecretNames}
    /\ \A j \in 1..(i - 1) : j \in {t.id : t \in tm} \cup {rt[n] : n \in SecretNames}

\* clearTimeout(handle)
clearTimeout(tm, handle) == {t \in tm : t.id # handle}

\* scheduleRotation(name): cancels the timer held for the name, sets a new one
scheduleRotation(tm, rt, name) ==
  LET cleared == IF rt[name] # 0 THEN clearTimeout(tm, rt[name]) ELSE tm
      id == NewTimerId(cleared, rt)
      due == storeClock + setTimeoutDelayMs(SECRET_CONFIG.rotationIntervalSec)
  IN [timers |-> cleared \cup {[id |-> id, name |-> name, due |-> due]},
      rotationTimers |-> [rt EXCEPT ![name] = id]]

\* the metadata written by rotateSecret: a copy with the rotation fields updated
updatedMetadata(metadata) ==
  [metadata EXCEPT !.lastRotatedAt = storeClock,
                   !.rotationCount = @ + 1,
                   !.version = @ + 1]

\* what getSecret(name) returns in the current state
getSecretResult(name) ==
  LET e == secrets[name]
  IN IF ~e.present \/ ~e.metadata.isActive THEN NullValue
     ELSE LET d == decryptSecret(e.encryptedValue, e.iv, e.tag)
          IN IF d.ok THEN d.value ELSE NullValue

HasTimer(name) == \E t \in timers : t.name = name
IsActive(name) == secrets[name].present /\ secrets[name].metadata.isActive
IsRevoked(name) == secrets[name].present /\ ~secrets[name].metadata.isActive

\* storeSecret(name, value, type)
storeSecret(name, value, type) ==
  /\ nextRandom + 1 <= MaxRandom
  /\ LET encrypted == encryptSecret(value, nextRandom + 1)
         metadata == [type |-> type, createdAt |-> storeClock, lastRotatedAt |-> storeClock,
                      rotationCount |-> 0, isActive |-> TRUE, version |-> 1]
         sched == scheduleRotation(timers, rotationTimers, name)
     IN /\ secrets' = [secrets EXCEPT ![name] =
                         [present |-> TRUE, encryptedValue |-> encrypted.encryptedValue,
                          iv |-> encrypted.iv, tag |-> encrypted.tag, metadata |-> metadata]]
        /\ timers' = sched.timers
        /\ rotationTimers' = sched.rotationTimers
  /\ nextRandom' = nextRandom + 1
  /\ res' = [NoRes EXCEPT !.op = "storeSecret", !.name = name, !.ok = TRUE]
  /\ UNCHANGED <<storeClock, cleanedUp>>
  /\ UNCHANGED outsideSecrets

\* getSecret(name)
getSecret(name) ==
  /\ res' = [NoRes EXCEPT !.op = "getSecret", !.name = name,
                          !.ok = (getSecretResult(name) # NullValue),
                          !.value = getSecretResult(name)]
  /\ UNCHANGED <<secrets, rotationTimers, timers, nextRandom, storeClock, cleanedUp>>
  /\ UNCHANGED outsideSecrets

\* the body of rotateSecret(name), run over the pending timers tm
rotateSecretOn(name, tm, byTimer) ==
  IF ~secrets[name].present
    THEN /\ res' = [NoRes EXCEPT !.op = "rotateSecret", !.name = name, !.byTimer = byTimer]
         /\ timers' = tm
         /\ UNCHANGED <<secrets, rotationTimers, nextRandom>>
    ELSE /\ nextRandom + 2 <= MaxRandom
         /\ LET newValue == generateStrongSecret(secrets[name].metadata.type, nextRandom + 1)
                encrypted == encryptSecret(newValue, nextRandom + 2)
                sched == scheduleRotation(tm, rotationTimers, name)
            IN /\ secrets' = [secrets EXCEPT ![name] =
                                [present |-> TRUE, encryptedValue |-> encrypted.encryptedValue,
                                 iv |-> encrypted.iv, tag |-> encrypted.tag,
                                 metadata |-> updatedMetadata(secrets[name].metadata)]]
               /\ timers' = sched.timers
               /\ rotationTimers' = sched.rotationTimers
         /\ nextRandom' = nextRandom + 2
         /\ res' = [NoRes EXCEPT !.op = "rotateSecret", !.name = name, !.ok = TRUE,
                                 !.byTimer = byTimer]

\* rotateSecret(name), called by the application
rotateSecret(name) ==
  /\ rotateSecretOn(name, timers, FALSE)
  /\ UNCHANGED <<storeClock, cleanedUp>>
  /\ UNCHANGED outsideSecrets

\* a rotation timer comes due and its callback runs: this.rotateSecret(name)
TimerFires(t) ==
  /\ t \in timers
  /\ t.due <= storeClock
  /\ rotateSecretOn(t.name, timers \ {t}, TRUE)
  /\ UNCHANGED <<storeClock, cleanedUp>>
  /\ UNCHANGED outsideSecrets

\* revokeSecret(name)
revokeSecret(name) ==
  /\ IF ~secrets[name].present
       THEN /\ res' = [NoRes EXCEPT !.op = "revokeSecret", !.name = name]
            /\ UNCHANGED <<secrets, rotationTimers, timers>>
       ELSE /\ secrets' = [secrets EXCEPT ![name].metadata.isActive = FALSE]
            /\ timers' = IF rotationTimers[name] # 0
                           THEN clearTimeout(timers, rotationTimers[name]) ELSE timers
            /\ rotationTimers' = [rotationTimers EXCEPT ![name] = 0]
            /\ res' = [NoRes EXCEPT !.op = "revokeSecret", !.name = name, !.ok = TRUE]
  /\ UNCHANGED <<nextRandom, storeClock, cleanedUp>>
  /\ UNCHANGED outsideSecrets

\* verifyIntegrity(): every stored secret, active or not, must decrypt
verifyIntegrity ==
  /\ res' = [NoRes EXCEPT !.op = "verifyIntegrity",
               !.ok = \A n \in SecretNames :
                        secrets[n].present =>
                          decryptSecret(secrets[n].encryptedValue, secrets[n].iv,
                                        secrets[n].tag).ok]
  /\ UNCHANGED <<secrets, rotationTimers, timers, nextRandom, storeClock, cleanedUp>>
  /\ UNCHANGED outsideSecrets

\* cleanup()
cleanup ==
  /\ timers' = {t \in timers : t.id \notin {rotationTimers[n] : n \in SecretNames}}
  /\ rotationTimers' = [n \in SecretNames |-> 0]
  /\ cleanedUp' = TRUE
  /\ res' = [NoRes EXCEPT !.op = "cleanup", !.ok = TRUE]
  /\ UNCHANGED <<secrets, nextRandom, storeClock>>
  /\ UNCHANGED outsideSecrets

\* a millisecond passes
TickStore ==
  /\ storeClock < MaxStoreMs
  /\ storeClock' = storeClock + 1
  /\ res' = NoRes
  /\ UNCHANGED <<secrets, rotationTimers, timers, nextRandom, cleanedUp>>
  /\ UNCHANGED outsideSecrets

\* new SecureCredentialsManager(): initializeSecrets stores jwt_primary
InitSecrets ==
  /\ storeClock = 0
  /\ nextRandom = 1
  /\ cleanedUp = FALSE
  /\ res = NoRes
  /\ LET encrypted == encryptSecret(ConfigJwtSecret, 1)
     IN secrets = [n \in SecretNames |->
          IF n = "jwt_primary"
            THEN [present |-> TRUE, encryptedValue |-> encrypted.encryptedValue,
                  iv |-> encrypted.iv, tag |-> encrypted.tag,
                  metadata |-> [type |-> "jwt", createdAt |-> 0, lastRotatedAt |-> 0,
                                rotationCount |-> 0, isActive |-> TRUE, version |-> 1]]
            ELSE NoSecret]
  /\ rotationTimers = [n \in SecretNames |-> IF n = "jwt_primary" THEN 1 ELSE 0]
  /\ timers = {[id |-> 1, name |-> "jwt_primary",
                due |-> setTimeoutDelayMs(SECRET_CONFIG.rotationIntervalSec)]}

NextSecrets ==
  \/ \E n \in SecretNames, v \in GivenValues, ty \in SecretTypes : storeSecret(n, v, ty)
  \/ \E n \in SecretNames : getSecret(n)
  \/ \E n \in SecretNames : rotateSecret(n)
  \/ \E t \in timers : TimerFires(t)
  \/ \E n \in SecretNames : revokeSecret(n)
  \/ verifyIntegrity
  \/ cleanup
  \/ TickStore

(***************************************************************************)
(* encryption: encryptPII / decryptPII                                     *)
(*                                                                         *)
(* A string is the sequence of its UTF-16 code units, a Buffer the         *)
(* sequence of its bytes.                                                  *)
(***************************************************************************)
IV_LENGTH == 16
KEY_LENGTH == 32

\* the code units the plaintexts are made of: a, e-acute, the euro sign, and the two
\* halves of the surrogate pair of U+1F600
PiiUnits == {97, 233, 8364, 55357, 56832}

RECURSIVE StringsOfLength(_)
StringsOfLength(n) ==
  IF n = 0 THEN {<<>>}
  ELSE {Append(u, c) : u \in StringsOfLength(n - 1), c \in PiiUnits}
RECURSIVE StringsUpTo(_)
StringsUpTo(n) == IF n = 0 THEN {<<>>} ELSE StringsOfLength(n) \cup StringsUpTo(n - 1)
PiiStrings == StringsUpTo(MaxLen)

IsHighSurrogate(c) == c >= 55296 /\ c <= 56319
IsLowSurrogate(c) == c >= 56320 /\ c <= 57343
IsSurrogate(c) == c >= 55296 /\ c <= 57343

\* no surrogate without its other half
RECURSIVE WellFormed(_)
WellFormed(u) ==
  IF u = <<>> THEN TRUE
  ELSE IF IsHighSurrogate(u[1])
    THEN Len(u) >= 2 /\ IsLowSurrogate(u[2]) /\ WellFormed(Tail(Tail(u)))
  ELSE ~IsLowSurrogate(u[1]) /\ WellFormed(Tail(u))

\* the sequences qs[lo], ..., qs[hi] joined
RECURSIVE Join(_, _, _)
Join(qs, lo, hi) ==
  IF lo > hi THEN <<>>
  ELSE IF lo = hi THEN qs[lo]
  ELSE Join(qs, lo, (lo + hi) \div 2) \o Join(qs, ((lo + hi) \div 2) + 1, hi)

\* faulty variant of the string-to-bytes conversion, for C10: 'latin1' instead of 'utf8'
latin1Encode(u) == [i \in 1..Len(u) |-> u[i] % 256]

\* the bytes that the code unit at place i of u gives in 'utf8'
Utf8BytesAt(u, i) ==
  LET c == u[i]
      cp == 65536 + (c - 55296) * 1024 + (u[i + 1] - 56320)
  IN IF c < 128 THEN <<c>>
     ELSE IF c < 2048 THEN <<192 + (c \div 64), 128 + (c % 64)>>
     ELSE IF IsHighSurrogate(c) /\ i < Len(u) /\ IsLowSurrogate(u[i + 1])
       THEN <<240 + (cp \div 262144), 128 + ((cp \div 4096) % 64),
              128 + ((cp \div 64) % 64), 128 + (cp % 64)>>
     ELSE IF IsLowSurrogate(c) /\ i > 1 /\ IsHighSurrogate(u[i - 1]) THEN <<>>
     ELSE IF IsSurrogate(c) THEN <<239, 191, 189>>
     ELSE <<224 + (c \div 4096), 128 + ((c \div 64) % 64), 128 + (c % 64)>>

\* string -> bytes in 'utf8': a surrogate pair gives four bytes, a lone surrogate is
\* replaced by U+FFFD (EF BF BD)
utf8Encode(u) == Join([i \in 1..Len(u) |-> Utf8BytesAt(u, i)], 1, Len(u))

IsContinuation(b) == b >= 128 /\ b <= 191

\* the length of the valid 'utf8' sequence that starts at place i of b (0: none)
Utf8LengthAt(b, i) ==
  LET b1 == b[i]
      n == Len(b)
      three == (b1 - 224) * 4096 + (b[i + 1] - 128) * 64 + (b[i + 2] - 128)
      four == (b1 - 240) * 262144 + (b[i + 1] - 128) * 4096 + (b[i + 2] - 128) * 64
              + (b[i + 3] - 128)
  IN IF i < 1 THEN 0
     ELSE IF b1 < 128 THEN 1
     ELSE IF b1 >= 194 /\ b1 <= 223 /\ i + 1 <= n /\ IsContinuation(b[i + 1]) THEN 2
     ELSE IF /\ b1 >= 224 /\ b1 <= 239 /\ i + 2 <= n
             /\ IsContinuation(b[i + 1]) /\ IsContinuation(b[i + 2])
             /\ three >= 2048 /\ ~IsSurrogate(three) THEN 3
     ELSE IF /\ b1 >= 240 /\ b1 <= 244 /\ i + 3 <= n
             /\ IsContinuation(b[i + 1]) /\ IsContinuation(b[i + 2])
             /\ IsContinuation(b[i + 3])
             /\ four >= 65536 /\ four <= 1114111 THEN 4
     ELSE 0

\* the code units that the byte at place i of b gives: those of the sequence it
\* starts, none if it continues a sequence, U+FFFD otherwise
Utf8UnitsAt(b, i) ==
  LET b1 == b[i]
      len == Utf8LengthAt(b, i)
      four == (b1 - 240) * 262144 + (b[i + 1] - 128) * 4096 + (b[i + 2] - 128) * 64
              + (b[i + 3] - 128)
  IN IF len = 1 THEN <<b1>>
     ELSE IF len = 2 THEN <<(b1 - 192) * 64 + (b[i + 1] - 128)>>
     ELSE IF len = 3
       THEN <<(b1 - 224) * 4096 + (b[i + 1] - 128) * 64 + (b[i + 2] - 128)>>
     ELSE IF len = 4
       THEN <<55296 + ((four - 65536) \div 1024), 56320 + ((four - 65536) % 1024)>>
     ELSE IF IsContinuation(b1) /\ \E k \in 1..3 : Utf8LengthAt(b, i - k) > k THEN <<>>
     ELSE <<65533>>

\* bytes -> string in 'utf8'
utf8Decode(b) == Join([i \in 1..Len(b) |-> Utf8UnitsAt(b, i)], 1, Len(b))

\* bitwise exclusive or of two numbers below 2^n
RECURSIVE Xor(_, _, _)
Xor(a, b, n) ==
  IF n = 0 THEN 0 ELSE (((a % 2) + (b % 2)) % 2) + 2 * Xor(a \div 2, b \div 2, n - 1)

\* getEncryptionKey(): scryptSync(config.JWT_SECRET, 'freelance-salt-2025', KEY_LENGTH),
\* the same KEY_LENGTH bytes at every call
getEncryptionKey == [i \in 1..KEY_LENGTH |-> (i * 29 + 5) % 256]

\* crypto.randomBytes(IV_LENGTH): draw number r, unlike every other draw
randomBytes(r) == [i \in 1..IV_LENGTH |-> (r * 37 + i * 11) % 256]

\* the i-th byte of the aes-256-ctr key stream: fixed by key, iv and position (a
\* stand-in for the AES block function, which is not modelled)
KeyStream(key, iv, i) ==
  (key[((i - 1) % KEY_LENGTH) + 1] + 7 * iv[((i - 1) % IV_LENGTH) + 1] + 13 * i) % 256

\* createCipheriv / createDecipheriv(...).update(...) + final(): in counter mode both
\* are the exclusive or with the key stream
cipherUpdate(key, iv, bytes) ==
  [i \in 1..Len(bytes) |-> Xor(bytes[i], KeyStream(key, iv, i), 8)]

\* bytes -> 'hex' string (lower case)
HexDigit(d) == IF d < 10 THEN 48 + d ELSE 87 + d
toHex(b) ==
  [i \in 1..(2 * Len(b)) |->
     IF i % 2 = 1 THEN HexDigit(b[(i + 1) \div 2] \div 16) ELSE HexDigit(b[i \div 2] % 16)]

\* 'hex' string -> bytes: pairs of digits of either case, up to the first that is none
HexValue(c) ==
  IF c >= 48 /\ c <= 57 THEN c - 48
  ELSE IF c >= 97 /\ c <= 102 THEN c - 87
  ELSE IF c >= 65 /\ c <= 70 THEN c - 55
  ELSE 0 - 1
fromHex(h) ==
  LET pairs == {k \in 0..(Len(h) \div 2) : \A j \in 1..(2 * k) : HexValue(h[j]) >= 0}
      n == CHOOSE k \in pairs : \A m \in pairs : m <= k
  IN [i \in 1..n |-> 16 * HexValue(h[2 * i - 1]) + HexValue(h[2 * i])]

\* JSON.stringify({encrypted, iv}): {"encrypted":"...","iv":"..."}
JsonEncryptedKey == <<101, 110, 99, 114, 121, 112, 116, 101, 100>>
JsonIvKey == <<105, 118>>
JSONstringify(data) ==
  <<123, 34>> \o JsonEncryptedKey \o <<34, 58, 34>> \o data.encrypted
  \o <<34, 44, 34>> \o JsonIvKey \o <<34, 58, 34>> \o data.iv \o <<34, 125>>

\* the place of the next double quote at or after i (0: none)
NextQuote(t, i) ==
  LET quotes == {j \in i..Len(t) : t[j] = 34}
  IN IF quotes = {} THEN 0 ELSE CHOOSE j \in quotes : \A k \in quotes : j <= k

NoJson == [ok |-> FALSE, hasEncrypted |-> FALSE, encrypted |-> <<>>, hasIv |-> FALSE, iv |-> <<>>]

\* the members "key":"value" of an object from place i on; strings without escapes
RECURSIVE JSONmembers(_, _, _)
JSONmembers(t, i, acc) ==
  LET kEnd == NextQuote(t, i + 1)
      vEnd == NextQuote(t, kEnd + 3)
      key == SubSeq(t, i + 1, kEnd - 1)
      value == SubSeq(t, kEnd + 3, vEnd - 1)
      got == IF key = JsonEncryptedKey
               THEN [acc EXCEPT !.hasEncrypted = TRUE, !.encrypted = value]
             ELSE IF key = JsonIvKey THEN [acc EXCEPT !.hasIv = TRUE, !.iv = value]
             ELSE acc
  IN IF i > Len(t) \/ t[i] # 34 \/ kEnd = 0 \/ kEnd + 2 > Len(t) THEN NoJson
     ELSE IF t[kEnd + 1] # 58 \/ t[kEnd + 2] # 34 \/ vEnd = 0 \/ vEnd + 1 > Len(t) THEN NoJson
     ELSE IF \E j \in (i + 1)..(vEnd - 1) : t[j] = 92 THEN NoJson
     ELSE IF t[vEnd + 1] = 125 /\ vEnd + 1 = Len(t) THEN [got EXCEPT !.ok = TRUE]
     ELSE IF t[vEnd + 1] = 44 THEN JSONmembers(t, vEnd + 2, got)
     ELSE NoJson

\* JSON.parse(text) for an object of string members; ok = FALSE: it throws, or the
\* value is no such object
JSONparse(t) ==
  IF Len(t) < 2 \/ t[1] # 123 THEN NoJson
  ELSE IF Len(t) = 2 THEN (IF t[2] = 125 THEN [NoJson EXCEPT !.ok = TRUE] ELSE NoJson)
  ELSE JSONmembers(t, 2, NoJson)

\* bytes -> 'base64' string, padded with =
Base64Char(v) ==
  IF v < 26 THEN 65 + v
  ELSE IF v < 52 THEN 97 + (v - 26)
  ELSE IF v < 62 THEN 48 + (v - 52)
  ELSE IF v = 62 THEN 43 ELSE 47
\* the six bits at place j (1..4) of the group of three bytes that starts at place i
Base64Bits(b, i, j) ==
  LET b2 == IF i + 1 <= Len(b) THEN b[i + 1] ELSE 0
      b3 == IF i + 2 <= Len(b) THEN b[i + 2] ELSE 0
  IN IF j = 1 THEN b[i] \div 4
     ELSE IF j = 2 THEN (b[i] % 4) * 16 + (b2 \div 16)
     ELSE IF j = 3 THEN (b2 % 16) * 4 + (b3 \div 64)
     ELSE b3 % 64
base64Encode(b) ==
  [k \in 1..(4 * ((Len(b) + 2) \div 3)) |->
     LET i == 3 * ((k - 1) \div 4) + 1
         j == ((k - 1) % 4) + 1
     IN IF i + j - 2 > Len(b) THEN 61 ELSE Base64Char(Base64Bits(b, i, j))]

\* 'base64' string -> bytes: the digits up to the first =, other characters skipped
Base64Value(c) ==
  IF c >= 65 /\ c <= 90 THEN c - 65
  ELSE IF c >= 97 /\ c <= 122 THEN c - 97 + 26
  ELSE IF c >= 48 /\ c <= 57 THEN c - 48 + 52
  ELSE IF c = 43 \/ c = 45 THEN 62
  ELSE IF c = 47 \/ c = 95 THEN 63
  ELSE 0 - 1
IsBase64Digit(c) == Base64Value(c) >= 0
Base64Digits(t) ==
  LET pads == {j \in 1..Len(t) : t[j] = 61}
      end == IF pads = {} THEN Len(t) ELSE (CHOOSE j \in pads : \A k \in pads : j <= k) - 1
  IN SelectSeq(SubSeq(t, 1, end), IsBase64Digit)
\* the bytes of the digits d (their six-bit values): four digits give three bytes, three
\* give two, two give one
Base64Bytes(d) ==
  LET v == [i \in 1..Len(d) |-> Base64Value(d[i])]
      n == (Len(d) * 3) \div 4
  IN [m \in 1..n |->
        LET g == 4 * ((m - 1) \div 3)
            r == (m - 1) % 3
        IN IF r = 0 THEN v[g + 1] * 4 + (v[g + 2] \div 16)
           ELSE IF r = 1 THEN (v[g + 2] % 16) * 16 + (v[g + 3] \div 4)
           ELSE (v[g + 3] % 4) * 64 + v[g + 4]]
base64Decode(t) == Base64Bytes(Base64Digits(t))

\* encryptPII(plaintext), r the draw of its iv
encryptPII(plaintext, r) ==
  IF plaintext = <<>> THEN plaintext
  ELSE LET key == getEncryptionKey
           iv == randomBytes(r)
           encrypted == toHex(cipherUpdate(key, iv, utf8Encode(plaintext)))
           encryptedData == [encrypted |-> encrypted, iv |-> toHex(iv)]
       IN base64Encode(utf8Encode(JSONstringify(encryptedData)))

\* decryptPII(encryptedText): whatever throws inside the try gives the input back
decryptPII(encryptedText) ==
  IF encryptedText = <<>> THEN encryptedText
  ELSE LET encryptedData == JSONparse(utf8Decode(base64Decode(encryptedText)))
           key == getEncryptionKey
           iv == fromHex(encryptedData.iv)
       IN IF ~encryptedData.ok \/ ~encryptedData.hasIv \/ ~encryptedData.hasEncrypted
            THEN encryptedText
          ELSE IF Len(iv) # IV_LENGTH THEN encryptedText
          ELSE utf8Decode(cipherUpdate(key, iv, fromHex(encryptedData.encrypted)))

InitPII ==
  /\ piiPc = "idle"
  /\ piiPlain = <<>>
  /\ piiToken = <<>>
  /\ piiDecrypted = <<>>
  /\ piiToken2 = <<>>
  /\ piiDraws = 0

\* the draws of one encryptPII call: none for an empty plaintext
DrawsOf(plaintext) == IF plaintext = <<>> THEN 0 ELSE 1

\* encryptPII(P)
CallEncryptPII(P) ==
  /\ piiPc = "idle"
  /\ piiPlain' = P
  /\ piiToken' = encryptPII(P, piiDraws + 1)
  /\ piiDraws' = piiDraws + DrawsOf(P)
  /\ piiPc' = "encrypted"
  /\ UNCHANGED <<piiDecrypted, piiToken2>>
  /\ UNCHANGED outsidePII

\* decryptPII(token)
CallDecryptPII ==
  /\ piiPc = "encrypted"
  /\ piiDecrypted' = decryptPII(piiToken)
  /\ piiPc' = "decrypted"
  /\ UNCHANGED <<piiPlain, piiToken, piiToken2, piiDraws>>
  /\ UNCHANGED outsidePII

\* encryptPII(P) once more
CallEncryptPIIAgain ==
  /\ piiPc = "decrypted"
  /\ piiToken2' = encryptPII(piiPlain, piiDraws + 1)
  /\ piiDraws' = piiDraws + DrawsOf(piiPlain)
  /\ piiPc' = "twice"
  /\ UNCHANGED <<piiPlain, piiToken, piiDecrypted>>
  /\ UNCHANGED outsidePII

NextPII ==
  \/ \E P \in PiiStrings : CallEncryptPII(P)
  \/ CallDecryptPII
  \/ CallEncryptPIIAgain

(***************************************************************************)
(* Regular expressions of the sanitizers (xss-protection.ts,               *)
(* path-traversal-protection.ts).  Strings are sequences of UTF-16 code    *)
(* units; an index is a JavaScript index (0 is the first unit).  A pattern *)
(* is a sequence of atoms; a RegExp object with the g flag keeps lastIndex *)
(* between its calls of test().                                            *)
(***************************************************************************)
\* the longest string a sanitizer is given in the model
MaxInput == 24

toLowerUnit(c) == IF c >= 65 /\ c <= 90 THEN c + 32 ELSE c
toLowerCase(s) == [i \in 1..Len(s) |-> toLowerUnit(s[i])]

\* s has t at index i (ignoring case when ci)
StartsWithAt(s, i, t, ci) ==
  /\ i + Len(t) <= Len(s)
  /\ \A j \in 1..Len(t) :
       IF ci THEN toLowerUnit(s[i + j]) = toLowerUnit(t[j]) ELSE s[i + j] = t[j]

\* s.includes(t), s.startsWith(t)
includes(s, t) == \E i \in 0..Len(s) : StartsWithAt(s, i, t, FALSE)
startsWith(s, t) == StartsWithAt(s, 0, t, FALSE)

IsWordUnit(c) ==
  \/ c >= 48 /\ c <= 57
  \/ c >= 65 /\ c <= 90
  \/ c >= 97 /\ c <= 122
  \/ c = 95
IsSpaceUnit(c) == c \in {9, 10, 11, 12, 13, 32, 160, 5760, 8232, 8233, 8239, 8287, 12288, 65279}
                    \/ (c >= 8192 /\ c <= 8202)

ScriptClose == <<60, 47, 115, 99, 114, 105, 112, 116, 62>>

\* the unit at index i of s belongs to the class cls
InClass(cls, s, i) ==
  LET c == s[i + 1]
  IN CASE cls = "space" -> IsSpaceUnit(c)                       \* \s
       [] cls = "word" -> IsWordUnit(c)                         \* \w
       [] cls = "dot" -> c = 46                                 \* \.
       [] cls = "sep" -> c \in {47, 92}                         \* [\\/]
       [] cls = "backslash" -> c = 92                           \* \\
       [] cls = "any" -> c \notin {10, 13, 8232, 8233}          \* .
       [] cls = "notclose" ->                                   \* [^<] | (?!<\/script>)<
            c # 60 \/ ~StartsWithAt(s, i, ScriptClose, TRUE)
       [] cls = "invalid" ->                                    \* [<>:"|?*\x00-\x1f\x7f]
            c \in {60, 62, 58, 34, 124, 63, 42, 127} \/ c <= 31

\* atoms of a pattern
Lit(t) == [k |-> "lit", t |-> t, c |-> "", min |-> 0, max |-> 0]
Rep(cls, min, max) == [k |-> "rep", t |-> <<>>, c |-> cls, min |-> min, max |-> max]
Bol == [k |-> "bol", t |-> <<>>, c |-> "", min |-> 0, max |-> 0]
Eol == [k |-> "eol", t |-> <<>>, c |-> "", min |-> 0, max |-> 0]
WordBoundary == [k |-> "wb", t |-> <<>>, c |-> "", min |-> 0, max |-> 0]
Star(cls) == Rep(cls, 0, MaxInput)
Plus(cls) == Rep(cls, 1, MaxInput)

\* const x = v; Op(x): the value of Op at v, with v evaluated once
Once(v, Op(_)) == CHOOSE r \in {Op(x) : x \in {v}} : TRUE

\* number of units from index i on that belong to cls, at most max
RunLength(cls, s, i, max) ==
  LET stop == {n \in 0..(Len(s) - i) : n = max \/ n = Len(s) - i \/ ~InClass(cls, s, i + n)}
  IN CHOOSE n \in stop : \A o \in stop : n <= o

SetMax(S) == CHOOSE x \in S : \A y \in S : y <= x
SetMin(S) == CHOOSE x \in S : \A y \in S : x <= y

\* the index where a match of atoms k.. that starts at index i ends, -1 if there is
\* none: repetitions are greedy and give back units until the rest matches
RECURSIVE MatchAt(_, _, _, _, _)
MatchAt(atoms, ci, k, s, i) ==
  IF k > Len(atoms) THEN i
  ELSE LET a == atoms[k]
       IN CASE a.k = "lit" ->
                 IF StartsWithAt(s, i, a.t, ci)
                   THEN MatchAt(atoms, ci, k + 1, s, i + Len(a.t)) ELSE -1
            [] a.k = "rep" ->
                 Once({m \in a.min..RunLength(a.c, s, i, a.max) :
                         MatchAt(atoms, ci, k + 1, s, i + m) # -1},
                      LAMBDA ok : IF ok = {} THEN -1
                                  ELSE Once(i + SetMax(ok),
                                            LAMBDA j : MatchAt(atoms, ci, k + 1, s, j)))
            [] a.k = "bol" -> IF i = 0 THEN MatchAt(atoms, ci, k + 1, s, i) ELSE -1
            [] a.k = "eol" -> IF i = Len(s) THEN MatchAt(atoms, ci, k + 1, s, i) ELSE -1
            [] a.k = "wb" ->
                 LET before == i > 0 /\ IsWordUnit(s[i])
                     after == i < Len(s) /\ IsWordUnit(s[i + 1])
                 IN IF before # after THEN MatchAt(atoms, ci, k + 1, s, i) ELSE -1

\* RegExp.prototype.exec from index from: where the leftmost match ends, -1 if none
execFrom(p, s, from) ==
  Once({i \in from..Len(s) : MatchAt(p.atoms, p.ci, 1, s, i) # -1},
       LAMBDA starts : IF starts = {} THEN -1
                       ELSE Once(SetMin(starts),
                                 LAMBDA i : MatchAt(p.atoms, p.ci, 1, s, i)))

\* pattern.test(s) on a RegExp whose lastIndex is li: the verdict and the lastIndex left.
\* Without the g flag the search starts at 0 and lastIndex stays 0.
test(p, s, li) ==
  IF ~p.global
    THEN [matched |-> execFrom(p, s, 0) # -1, lastIndex |-> li]
  ELSE IF li > Len(s) THEN [matched |-> FALSE, lastIndex |-> 0]
  ELSE Once(execFrom(p, s, li),
            LAMBDA e : IF e = -1 THEN [matched |-> FALSE, lastIndex |-> 0]
                       ELSE [matched |-> TRUE, lastIndex |-> e])

RegExp(atoms, global, ci) == [atoms |-> atoms, global |-> global, ci |-> ci]

\* for (const pattern of patterns) if (pattern.test(s)) ...: the index of the first
\* pattern that matches (0: none) and the lastIndex of every pattern after the loop.
\* test(pattern k) reads and writes the lastIndex of pattern k alone, so the loop
\* leaves the patterns up to the hit as their test leaves them and the others as
\* they were.
firstMatching(patterns, s, li) ==
  Once([k \in 1..Len(patterns) |-> test(patterns[k], s, li[k])],
       LAMBDA t :
         Once(IF \E k \in 1..Len(patterns) : t[k].matched
                THEN SetMin({k \in 1..Len(patterns) : t[k].matched}) ELSE 0,
              LAMBDA hit :
                [hit |-> hit,
                 lastIndex |-> [k \in 1..Len(patterns) |->
                                  IF hit = 0 \/ k <= hit THEN t[k].lastIndex
                                  ELSE li[k]]]))

(***************************************************************************)
(* xss-protection.ts: sanitizeXSS and sanitizeObjectXSS.                   *)
(***************************************************************************)
\* XSS_PATTERNS: ten RegExp objects of the module, all with the flags g and i
XSS_PATTERNS ==
  << RegExp(<<Lit(<<60, 115, 99, 114, 105, 112, 116>>), WordBoundary, Star("notclose"), Lit(ScriptClose)>>, TRUE, TRUE),
     RegExp(<<Lit(<<106, 97, 118, 97, 115, 99, 114, 105, 112, 116, 58>>)>>, TRUE, TRUE),
     RegExp(<<Lit(<<118, 98, 115, 99, 114, 105, 112, 116, 58>>)>>, TRUE, TRUE),
     RegExp(<<Lit(<<111, 110>>), Plus("word"), Star("space"), Lit(<<61>>)>>, TRUE, TRUE),
     RegExp(<<Lit(<<101, 120, 112, 114, 101, 115, 115, 105, 111, 110>>), Star("space"), Lit(<<40>>)>>, TRUE, TRUE),
     RegExp(<<Lit(<<117, 114, 108>>), Star("space"), Lit(<<40>>)>>, TRUE, TRUE),
     RegExp(<<Lit(<<38, 108, 116, 59, 115, 99, 114, 105, 112, 116>>)>>, TRUE, TRUE),
     RegExp(<<Lit(<<38, 108, 116, 59, 105, 102, 114, 97, 109, 101>>)>>, TRUE, TRUE),
     RegExp(<<Lit(<<100, 97, 116, 97, 58, 116, 101, 120, 116, 47, 104, 116, 109, 108>>)>>, TRUE, TRUE),
     RegExp(<<Lit(<<60>>), Star("space"), Lit(<<109, 101, 116, 97>>), Plus("space"), Lit(<<104, 116, 116, 112, 45, 101, 113, 117, 105, 118>>)>>,
            TRUE, TRUE) >>

IsAsciiLetter(c) == (c >= 65 /\ c <= 90) \/ (c >= 97 /\ c <= 122)

\* index of the first unit c at or after index i of s, -1 if none
indexOfUnit(s, c, i) ==
  LET at == {j \in i..(Len(s) - 1) : s[j + 1] = c}
  IN IF at = {} THEN -1 ELSE SetMin(at)

\* a tag name of an HTML tag ends at index i: white space, '/', '>' or the end of input
EndsTagName(s, i) == i >= Len(s) \/ IsSpaceUnit(s[i + 1]) \/ s[i + 1] \in {47, 62}

\* index of the first end tag of a script element at or after index i, -1 if none
scriptEndTag(s, i) ==
  LET at == {j \in i..Len(s) : StartsWithAt(s, j, <<60, 47, 115, 99, 114, 105, 112, 116>>, TRUE) /\ EndsTagName(s, j + 8)}
  IN IF at = {} THEN -1 ELSE SetMin(at)

\* DOMPurify.sanitize(input, PURIFY_CONFIG) from index i on: no tag is allowed, the text
\* of the elements is kept (KEEP_CONTENT) except that of a script element
\* (FORBID_CONTENTS), and the text is serialized as HTML
RECURSIVE purifyFrom(_, _)
purifyFrom(s, from) ==
  IF from >= Len(s) THEN <<>>
  ELSE Once([i |-> from, c |-> s[from + 1], gt |-> indexOfUnit(s, 62, from),
             script |-> StartsWithAt(s, from, <<60, 115, 99, 114, 105, 112, 116>>, TRUE) /\ EndsTagName(s, from + 7),
             tag |-> /\ from + 1 < Len(s)
                     /\ \/ IsAsciiLetter(s[from + 2])
                        \/ (s[from + 2] = 47 /\ from + 2 < Len(s) /\ IsAsciiLetter(s[from + 3]))],
            LAMBDA at :
              CASE at.c = 60 /\ at.script ->
                     Once(IF at.gt = -1 THEN -1 ELSE scriptEndTag(s, at.gt + 1),
                          LAMBDA end :
                            Once(IF end = -1 THEN -1 ELSE indexOfUnit(s, 62, end),
                                 LAMBDA endGt : IF endGt = -1 THEN <<>>
                                                ELSE purifyFrom(s, endGt + 1)))
                [] at.c = 60 /\ ~at.script /\ at.tag ->
                     IF at.gt = -1 THEN <<>> ELSE purifyFrom(s, at.gt + 1)
                [] at.c = 60 /\ ~at.script /\ ~at.tag -> <<38, 108, 116, 59>> \o purifyFrom(s, at.i + 1)
                [] at.c = 62 -> <<38, 103, 116, 59>> \o purifyFrom(s, at.i + 1)
                [] at.c = 38 /\ StartsWithAt(s, at.i, <<38, 108, 116, 59>>, FALSE) ->
                     <<38, 108, 116, 59>> \o purifyFrom(s, at.i + 4)
                [] at.c = 38 /\ StartsWithAt(s, at.i, <<38, 103, 116, 59>>, FALSE) ->
                     <<38, 103, 116, 59>> \o purifyFrom(s, at.i + 4)
                [] at.c = 38 /\ StartsWithAt(s, at.i, <<38, 97, 109, 112, 59>>, FALSE) ->
                     <<38, 97, 109, 112, 59>> \o purifyFrom(s, at.i + 5)
                [] at.c = 38 /\ StartsWithAt(s, at.i, <<38, 113, 117, 111, 116, 59>>, FALSE) ->
                     <<34>> \o purifyFrom(s, at.i + 6)
                [] at.c = 38 /\ ~(\E e \in {<<38, 108, 116, 59>>, <<38, 103, 116, 59>>, <<38, 97, 109, 112, 59>>, <<38, 113, 117, 111, 116, 59>>} :
                                    StartsWithAt(s, at.i, e, FALSE)) ->
                     <<38, 97, 109, 112, 59>> \o purifyFrom(s, at.i + 1)
                [] OTHER -> <<at.c>> \o purifyFrom(s, at.i + 1))

DOMPurifySanitize(input) == Once(input, LAMBDA s : purifyFrom(s, 0))

\* s.replace(/from/g, to) with a literal pattern (a RegExp literal inside the function:
\* a new object at every call)
RECURSIVE replaceFrom(_, _, _, _)
replaceFrom(s, from, to, at) ==
  Once(at, LAMBDA i :
    IF i >= Len(s) THEN <<>>
    ELSE IF StartsWithAt(s, i, from, FALSE) THEN to \o replaceFrom(s, from, to, i + Len(from))
    ELSE <<s[i + 1]>> \o replaceFrom(s, from, to, i + 1))

replaceAll(s, from, to) == Once(s, LAMBDA v : replaceFrom(v, from, to, 0))

\* step 3 of sanitizeXSS: the six replacements, in the order of the source
decodeEntities(s) ==
  replaceAll(replaceAll(replaceAll(replaceAll(replaceAll(replaceAll(s,
    <<38, 97, 109, 112, 59>>, <<38>>), <<38, 108, 116, 59>>, <<60>>), <<38, 103, 116, 59>>, <<62>>), <<38, 113, 117, 111, 116, 59>>, <<34>>),
    <<38, 35, 120, 50, 55, 59>>, <<39>>), <<38, 35, 120, 50, 70, 59>>, <<47>>)

\* sanitizeXSS(input) with the XSS_PATTERNS in the state li: whether it throws, the value
\* it returns, and the lastIndex of the patterns after the call
sanitizeXSS(input, li) ==
  IF input = <<>> THEN [threw |-> FALSE, value |-> input, lastIndex |-> li]
  ELSE Once(firstMatching(XSS_PATTERNS, input, li),
            LAMBDA first :
              IF first.hit # 0
                THEN [threw |-> TRUE, value |-> <<>>, lastIndex |-> first.lastIndex]
              ELSE Once(decodeEntities(DOMPurifySanitize(input)),
                        LAMBDA sanitized :
                          Once(firstMatching(XSS_PATTERNS, sanitized, first.lastIndex),
                               LAMBDA second :
                                 IF second.hit # 0 \/ Len(sanitized) > 10000
                                   THEN [threw |-> TRUE, value |-> <<>>,
                                         lastIndex |-> second.lastIndex]
                                 ELSE [threw |-> FALSE, value |-> sanitized,
                                       lastIndex |-> second.lastIndex])))

\* the lastIndex of every pattern of a list when the module is loaded
FreshLastIndex(patterns) == [k \in 1..Len(patterns) |-> 0]

\* the strings given to sanitizeXSS
XssInputs ==
  { <<60, 115, 99, 114, 105, 112, 116, 62, 120, 60, 47, 115, 99, 114, 105, 112, 116, 62>>, <<60, 115, 99, 114, 105, 112, 116, 62, 120, 60, 47, 115, 99, 114, 105, 112, 116, 32, 62>>, <<60, 83, 67, 82, 73, 80, 84, 32, 83, 82, 67, 61, 120, 62, 60, 47, 83, 67, 82, 73, 80, 84, 62>>,
    <<104, 105>>, <<60, 98, 62, 104, 105, 60, 47, 98, 62>>, <<38, 108, 116, 59, 115, 99, 114, 105, 112, 116>>, <<97, 32, 106, 97, 118, 97, 115, 99, 114, 105, 112, 116, 58, 98>>, <<38, 97, 109, 112, 59, 108, 116, 59, 115, 99, 114, 105, 112, 116>>,
    <<111, 110, 99, 108, 105, 99, 107, 32, 61, 32, 120>>, <<117, 114, 108, 32, 40, 120, 41>>, <<38, 108, 116, 59, 105, 102, 114, 97, 109, 101>>, <<60, 109, 101, 116, 97, 32, 32, 104, 116, 116, 112, 45, 101, 113, 117, 105, 118>> }

\* S contains a script element written <script ...> ... </script>: a start tag and,
\* after it, the end tag in exactly this form (in either case of the letters)
ContainsScriptElement(s) ==
  \E i \in 0..Len(s) :
    /\ StartsWithAt(s, i, <<60, 115, 99, 114, 105, 112, 116>>, TRUE) /\ EndsTagName(s, i + 7)
    /\ indexOfUnit(s, 62, i) # -1
    /\ \E j \in (indexOfUnit(s, 62, i) + 1)..Len(s) : StartsWithAt(s, j, ScriptClose, TRUE)

(***************************************************************************)
(* path-traversal-protection.ts: sanitizeFilePath and createSecurePath.    *)
(***************************************************************************)
\* DANGEROUS_PATH_PATTERNS, in the order of the source (lines 11 to 38); two of them
\* have no flag, the others keep lastIndex
DANGEROUS_PATH_PATTERNS ==
  << RegExp(<<Lit(<<46, 46>>)>>, TRUE, FALSE),
     RegExp(<<Lit(<<46>>), Rep("sep", 1, 1)>>, FALSE, FALSE),
     RegExp(<<Lit(<<46>>), Plus("dot")>>, TRUE, FALSE),
     RegExp(<<Lit(<<47, 46, 46>>)>>, TRUE, FALSE),
     RegExp(<<Rep("backslash", 1, 1), Lit(<<46, 46>>), Rep("backslash", 0, 1)>>, TRUE, FALSE),
     RegExp(<<Lit(<<46, 46>>), Rep("sep", 1, 1)>>, FALSE, FALSE),
     RegExp(<<Lit(<<46, 46, 47>>)>>, TRUE, FALSE),
     RegExp(<<Lit(<<47, 46>>), Plus("dot")>>, TRUE, FALSE),
     RegExp(<<Rep("backslash", 1, 1), Lit(<<46>>), Plus("dot"), Rep("backslash", 0, 1)>>,
            TRUE, FALSE),
     RegExp(<<Lit(<<37, 50, 101, 37, 50, 101>>)>>, TRUE, TRUE),
     RegExp(<<Lit(<<37, 50, 53, 50, 101, 37, 50, 53, 50, 101>>)>>, TRUE, TRUE),
     RegExp(<<Lit(<<37, 99, 48, 37, 97, 101, 37, 99, 48, 37, 97, 101>>)>>, TRUE, TRUE),
     RegExp(<<Lit(<<37, 101, 48, 37, 56, 48, 37, 97, 101, 37, 101, 48, 37, 56, 48, 37, 97, 101>>)>>, TRUE, TRUE),
     RegExp(<<Lit(<<46, 46>>)>>, TRUE, FALSE),
     RegExp(<<Lit(<<46, 37, 50, 101>>)>>, TRUE, TRUE),
     RegExp(<<Lit(<<37, 50, 101, 46>>)>>, TRUE, TRUE),
     RegExp(<<Lit(<<46, 37, 50, 53, 50, 101>>)>>, TRUE, TRUE),
     RegExp(<<Lit(<<37, 50, 53, 50, 101, 46>>)>>, TRUE, TRUE),
     RegExp(<<Lit(<<63>>), Star("any"), Lit(<<46, 46>>)>>, TRUE, FALSE),
     RegExp(<<Lit(<<35>>), Star("any"), Lit(<<46, 46>>)>>, TRUE, FALSE),
     RegExp(<<Lit(<<102, 105, 108, 101, 58>>)>>, TRUE, TRUE),
     RegExp(<<Bol, Lit(<<47, 112, 114, 111, 99, 47>>)>>, TRUE, TRUE),
     RegExp(<<Bol, Lit(<<47, 100, 101, 118, 47>>)>>, TRUE, TRUE),
     RegExp(<<Bol, Lit(<<47, 115, 121, 115, 47>>)>>, TRUE, TRUE),
     RegExp(<<Bol, Lit(<<67, 58>>), Rep("backslash", 1, 1), Lit(<<87, 105, 110, 100, 111, 119, 115>>),
              Rep("backslash", 1, 1)>>, TRUE, TRUE),
     RegExp(<<Bol, Lit(<<67, 58>>), Rep("backslash", 1, 1), Lit(<<80, 114, 111, 103, 114, 97, 109, 32, 70, 105, 108, 101, 115>>),
              Rep("backslash", 1, 1)>>, TRUE, TRUE),
     RegExp(<<Bol, Lit(<<47, 101, 116, 99, 47>>)>>, TRUE, TRUE),
     RegExp(<<Bol, Lit(<<47, 118, 97, 114, 47>>)>>, TRUE, TRUE),
     RegExp(<<Bol, Lit(<<47, 114, 111, 111, 116, 47>>)>>, TRUE, TRUE),
     RegExp(<<Bol, Lit(<<47, 104, 111, 109, 101, 47>>), Star("any"), Lit(<<47, 46>>)>>, TRUE, TRUE),
     RegExp(<<Lit(<<46, 46>>), Rep("sep", 1, 1)>>, TRUE, FALSE),
     RegExp(<<Rep("sep", 1, 1), Lit(<<46, 46>>), Rep("sep", 1, 1)>>, TRUE, FALSE),
     RegExp(<<Bol, Lit(<<46, 46>>)>>, TRUE, FALSE),
     RegExp(<<Lit(<<46, 46>>), Eol>>, TRUE, FALSE) >>

DANGEROUS_EXTENSIONS ==
  { <<46, 101, 120, 101>>, <<46, 98, 97, 116>>, <<46, 99, 109, 100>>, <<46, 115, 99, 114>>, <<46, 118, 98, 115>>, <<46, 106, 115>>, <<46, 106, 97, 114>>,
    <<46, 115, 104>>, <<46, 112, 115, 49>>, <<46, 112, 121>>, <<46, 112, 104, 112>>, <<46, 97, 115, 112>>, <<46, 97, 115, 112, 120>>, <<46, 106, 115, 112>>,
    <<46, 100, 108, 108>>, <<46, 115, 121, 115>>, <<46, 105, 110, 105>>, <<46, 99, 102, 103>>, <<46, 99, 111, 110, 102>>, <<46, 104, 116, 97, 99, 99, 101, 115, 115>>,
    <<46, 112, 97, 115, 115, 119, 100>>, <<46, 115, 104, 97, 100, 111, 119>>, <<46, 107, 101, 121>>, <<46, 112, 101, 109>>, <<46, 99, 114, 116>> }

\* the backslash of the Windows entries is the unit 92
FORBIDDEN_DIRECTORIES ==
  { <<47, 101, 116, 99>>, <<47, 112, 114, 111, 99>>, <<47, 100, 101, 118>>, <<47, 115, 121, 115>>, <<47, 114, 111, 111, 116>>, <<47, 98, 111, 111, 116>>,
    <<47, 118, 97, 114, 47, 108, 111, 103>>, <<47, 118, 97, 114, 47, 108, 105, 98>>, <<47, 117, 115, 114, 47, 98, 105, 110>>, <<47, 117, 115, 114, 47, 115, 98, 105, 110>>,
    <<67, 58, 92, 87, 105, 110, 100, 111, 119, 115>>, <<67, 58, 92, 80, 114, 111, 103, 114, 97, 109, 32, 70, 105, 108, 101, 115>>, <<67, 58, 92, 80, 114, 111, 103, 114, 97, 109, 32, 70, 105, 108, 101, 115, 32, 40, 120, 56, 54, 41>>,
    <<67, 58, 92, 85, 115, 101, 114, 115, 92, 68, 101, 102, 97, 117, 108, 116>>, <<67, 58, 92, 80, 114, 111, 103, 114, 97, 109, 68, 97, 116, 97>>, <<67, 58, 92, 83, 121, 115, 116, 101, 109, 32, 86, 111, 108, 117, 109, 101, 32, 73, 110, 102, 111, 114, 109, 97, 116, 105, 111, 110>>,
    <<47, 83, 121, 115, 116, 101, 109>>, <<47, 76, 105, 98, 114, 97, 114, 121>>, <<47, 112, 114, 105, 118, 97, 116, 101>>, <<47, 117, 115, 114, 47, 108, 111, 99, 97, 108, 47, 98, 105, 110>> }

FORBIDDEN_FILENAMES ==
  { <<112, 97, 115, 115, 119, 100>>, <<115, 104, 97, 100, 111, 119>>, <<104, 111, 115, 116, 115>>, <<102, 115, 116, 97, 98>>, <<115, 117, 100, 111, 101, 114, 115>>,
    <<119, 101, 98, 46, 99, 111, 110, 102, 105, 103>>, <<46, 104, 116, 97, 99, 99, 101, 115, 115>>, <<46, 104, 116, 112, 97, 115, 115, 119, 100>>, <<46, 101, 110, 118>>,
    <<99, 111, 110, 102, 105, 103, 46, 112, 104, 112>>, <<119, 112, 45, 99, 111, 110, 102, 105, 103, 46, 112, 104, 112>>, <<100, 97, 116, 97, 98, 97, 115, 101, 46, 121, 109, 108>>,
    <<115, 101, 99, 114, 101, 116, 115, 46, 106, 115, 111, 110>>, <<112, 114, 105, 118, 97, 116, 101, 46, 107, 101, 121>>, <<105, 100, 95, 114, 115, 97>>, <<105, 100, 95, 100, 115, 97>> }

\* String.prototype.trim
trim(s) ==
  LET kept == {i \in 1..Len(s) : ~IsSpaceUnit(s[i])}
  IN IF kept = {} THEN <<>> ELSE SubSeq(s, SetMin(kept), SetMax(kept))

IsHexUnit(c) == (c >= 48 /\ c <= 57) \/ (c >= 65 /\ c <= 70) \/ (c >= 97 /\ c <= 102)
HexUnitValue(c) == IF c <= 57 THEN c - 48 ELSE IF c <= 70 THEN c - 55 ELSE c - 87

\* s has an escape %XX at index i
IsEscapeAt(s, i) == i + 3 <= Len(s) /\ s[i + 1] = 37 /\ IsHexUnit(s[i + 2]) /\ IsHexUnit(s[i + 3])
EscapeByteAt(s, i) == HexUnitValue(s[i + 2]) * 16 + HexUnitValue(s[i + 3])

\* number of bytes of the UTF-8 sequence that the byte b begins, 0 if b begins none
Utf8SequenceLength(b) ==
  IF b < 128 THEN 1
  ELSE IF b >= 194 /\ b <= 223 THEN 2
  ELSE IF b >= 224 /\ b <= 239 THEN 3
  ELSE IF b >= 240 /\ b <= 244 THEN 4
  ELSE 0

\* decodeURIComponent from index i on: the units, or <<-1>> in front of them when the
\* input is malformed (URIError)
RECURSIVE decodeFrom(_, _)
decodeFrom(s, at) ==
  Once(at, LAMBDA i :
    IF i >= Len(s) THEN <<>>
    ELSE IF s[i + 1] # 37 THEN <<s[i + 1]>> \o decodeFrom(s, i + 1)
    ELSE IF ~IsEscapeAt(s, i) THEN <<-1>>
    ELSE LET n == Utf8SequenceLength(EscapeByteAt(s, i))
             bytes == [k \in 1..n |-> EscapeByteAt(s, i + 3 * (k - 1))]
         IN IF n = 0 \/ \E k \in 1..n : ~IsEscapeAt(s, i + 3 * (k - 1)) THEN <<-1>>
            ELSE IF utf8Encode(utf8Decode(bytes)) # bytes THEN <<-1>>
            ELSE utf8Decode(bytes) \o decodeFrom(s, i + 3 * n))

decodeURIComponent(s) ==
  Once(decodeFrom(s, 0),
       LAMBDA d : IF \E k \in 1..Len(d) : d[k] = -1 THEN [threw |-> TRUE, value |-> <<>>]
                  ELSE [threw |-> FALSE, value |-> d])

\* the decoding loop of sanitizeFilePath: at most five rounds, stopping at a fixed point
\* or at the first URIError
RECURSIVE decodeLoop(_, _, _)
decodeLoop(decodedPath, previousPath, attempts) ==
  IF decodedPath = previousPath \/ attempts >= 5 THEN decodedPath
  ELSE Once(decodeURIComponent(decodedPath),
            LAMBDA d : IF d.threw THEN decodedPath
                       ELSE decodeLoop(d.value, decodedPath, attempts + 1))

\* s.split('/')
RECURSIVE splitFrom(_, _)
splitFrom(s, i) ==
  Once(indexOfUnit(s, 47, i),
       LAMBDA j : IF j = -1 THEN <<SubSeq(s, i + 1, Len(s))>>
                  ELSE <<SubSeq(s, i + 1, j)>> \o splitFrom(s, j + 1))

\* segs.join('/')
RECURSIVE joinFrom(_, _)
joinFrom(segs, k) ==
  IF k > Len(segs) THEN <<>>
  ELSE IF k = Len(segs) THEN segs[k]
  ELSE segs[k] \o <<47>> \o joinFrom(segs, k + 1)

\* normalizeString of node:path (posix): '.' and empty segments dropped, '..' takes the
\* segment before it away
RECURSIVE normalizeSegments(_, _, _, _)
normalizeSegments(segs, k, kept, allowAboveRoot) ==
  Once(kept, LAMBDA acc :
    IF k > Len(segs) THEN acc
    ELSE LET seg == segs[k]
         IN IF seg = <<>> \/ seg = <<46>> THEN normalizeSegments(segs, k + 1, acc, allowAboveRoot)
            ELSE IF seg = <<46, 46>>
              THEN IF acc # <<>> /\ acc[Len(acc)] # <<46, 46>>
                     THEN normalizeSegments(segs, k + 1, SubSeq(acc, 1, Len(acc) - 1),
                                            allowAboveRoot)
                   ELSE IF allowAboveRoot
                     THEN normalizeSegments(segs, k + 1, Append(acc, seg), allowAboveRoot)
                   ELSE normalizeSegments(segs, k + 1, acc, allowAboveRoot)
            ELSE normalizeSegments(segs, k + 1, Append(acc, seg), allowAboveRoot))

isAbsolute(p) == Len(p) > 0 /\ p[1] = 47

\* path.normalize (posix)
pathNormalize(p) ==
  IF p = <<>> THEN <<46>>
  ELSE Once(splitFrom(p, 0), LAMBDA segs :
         Once(joinFrom(normalizeSegments(segs, 1, <<>>, ~isAbsolute(p)), 1), LAMBDA body :
           LET trailing == p[Len(p)] = 47
           IN IF body = <<>>
                THEN (IF isAbsolute(p) THEN <<47>> ELSE IF trailing THEN <<46, 47>> ELSE <<46>>)
              ELSE (IF isAbsolute(p) THEN <<47>> ELSE <<>>) \o body
                     \o (IF trailing THEN <<47>> ELSE <<>>)))

\* the working directory of the process, for path.resolve of a relative basePath
Cwd == <<47, 97, 112, 112>>

\* path.resolve(a, b) and path.resolve(a) (posix)
pathResolve2(a, b) ==
  Once(IF isAbsolute(b) THEN b
       ELSE IF isAbsolute(a) THEN a \o <<47>> \o b
       ELSE Cwd \o <<47>> \o a \o <<47>> \o b,
       LAMBDA joined :
         Once(splitFrom(joined, 0), LAMBDA segs :
           <<47>> \o joinFrom(normalizeSegments(segs, 1, <<>>, FALSE), 1)))

pathResolve1(a) == pathResolve2(a, <<>>)

\* path.basename(p) (posix): what follows the last '/', trailing '/' set aside
pathBasename(p) ==
  Once(SelectSeq(splitFrom(p, 0), LAMBDA g : g # <<>>),
       LAMBDA segs : IF segs = <<>> THEN <<>> ELSE segs[Len(segs)])

\* path.extname(p): from the last '.' of the basename on, unless that '.' begins it
pathExtname(p) ==
  Once(pathBasename(p), LAMBDA b :
    Once({i \in 1..Len(b) : b[i] = 46}, LAMBDA dots :
      IF dots = {} \/ SetMax(dots) = 1 \/ b = <<46, 46>> THEN <<>>
      ELSE SubSeq(b, SetMax(dots), Len(b))))

\* sanitizeFilePath(filePath) with the DANGEROUS_PATH_PATTERNS in the state li
sanitizeFilePath(filePath, li) ==
  LET invalidChars == RegExp(<<Rep("invalid", 1, 1)>>, TRUE, FALSE)
      Reject(r, l) == [isValid |-> FALSE, sanitized |-> <<>>, reason |-> r, lastIndex |-> l]
  IN IF filePath = <<>> THEN Reject("Chemin invalide", li)
     ELSE
       Once(decodeLoop(trim(filePath), <<>>, 0), LAMBDA decodedPath :
       Once(firstMatching(DANGEROUS_PATH_PATTERNS, decodedPath, li), LAMBDA scan :
         IF scan.hit # 0 THEN Reject("Tentative de traversee detectee", scan.lastIndex)
         ELSE
           Once(replaceAll(pathNormalize(decodedPath), <<92>>, <<47>>), LAMBDA normalizedPath :
           Once(toLowerCase(pathExtname(normalizedPath)), LAMBDA ext :
           Once(toLowerCase(pathBasename(normalizedPath)), LAMBDA filename :
             IF ext \in DANGEROUS_EXTENSIONS
               THEN Reject("Extension dangereuse", scan.lastIndex)
             ELSE IF \E d \in FORBIDDEN_DIRECTORIES :
                       startsWith(toLowerCase(normalizedPath), toLowerCase(d))
               THEN Reject("Acces interdit", scan.lastIndex)
             ELSE IF \E f \in FORBIDDEN_FILENAMES :
                       filename = f \/ startsWith(filename, f \o <<46>>)
               THEN Reject("Fichier systeme interdit", scan.lastIndex)
             ELSE IF Len(normalizedPath) > 255 THEN Reject("Chemin trop long", scan.lastIndex)
             ELSE IF test(invalidChars, normalizedPath, 0).matched
               THEN Reject("Caracteres interdits dans le chemin", scan.lastIndex)
             ELSE [isValid |-> TRUE, sanitized |-> normalizedPath, reason |-> "",
                   lastIndex |-> scan.lastIndex])))))

\* the null that createSecurePath returns for a rejected path
NullPath == <<0>>

\* createSecurePath(basePath, userPath): the path returned (NullPath for null) and the
\* lastIndex of the patterns after the call
createSecurePath(basePath, userPath, li) ==
  Once(sanitizeFilePath(userPath, li), LAMBDA validation :
    IF ~validation.isValid \/ validation.sanitized = <<>>
      THEN [path |-> NullPath, lastIndex |-> validation.lastIndex]
    ELSE Once(pathResolve2(basePath, validation.sanitized), LAMBDA fullPath :
           IF ~startsWith(fullPath, pathResolve1(basePath))
             THEN [path |-> NullPath, lastIndex |-> validation.lastIndex]
           ELSE [path |-> fullPath, lastIndex |-> validation.lastIndex]))

\* the paths given to sanitizeFilePath and createSecurePath; the fourth is '..' with
\* its second dot percent-encoded eight times over
PathInputs ==
  { <<46, 46, 47, 46, 46, 47, 101, 116, 99, 47, 112, 97, 115, 115, 119, 100>>, <<46, 46>>, <<37, 50, 101, 37, 50, 101, 37>>, <<46, 37, 50, 53, 50, 53, 50, 53, 50, 53, 50, 53, 50, 53, 50, 53, 50, 101>>,
    <<97, 46, 116, 120, 116>>, <<46>>, <<100, 111, 99, 115, 47, 97, 46, 116, 120, 116>>, <<47, 115, 114, 118, 47, 117, 112, 108, 111, 97, 100, 115, 45, 111, 108, 100, 47, 97, 46, 116, 120, 116>> }

BasePaths == { <<47, 115, 114, 118, 47, 117, 112, 108, 111, 97, 100, 115>> }

NoSanRes == [op |-> "none", input |-> <<>>, base |-> <<>>, threw |-> FALSE,
             isValid |-> FALSE, value |-> <<>>]

InitSanitizers ==
  /\ xssLastIndex = FreshLastIndex(XSS_PATTERNS)
  /\ pathLastIndex = FreshLastIndex(DANGEROUS_PATH_PATTERNS)
  /\ sanRes = NoSanRes

\* a call sanitizeXSS(input)
CallSanitizeXSS(input) ==
  \E r \in {sanitizeXSS(input, xssLastIndex)} :
    /\ xssLastIndex' = r.lastIndex
    /\ sanRes' = [NoSanRes EXCEPT !.op = "sanitizeXSS", !.input = input,
                                  !.threw = r.threw, !.value = r.value]
    /\ UNCHANGED pathLastIndex
    /\ UNCHANGED outsideSanitizers

\* a call sanitizeFilePath(filePath)
CallSanitizeFilePath(filePath) ==
  \E r \in {sanitizeFilePath(filePath, pathLastIndex)} :
    /\ pathLastIndex' = r.lastIndex
    /\ sanRes' = [NoSanRes EXCEPT !.op = "sanitizeFilePath", !.input = filePath,
                                  !.isValid = r.isValid, !.value = r.sanitized]
    /\ UNCHANGED xssLastIndex
    /\ UNCHANGED outsideSanitizers

\* a call createSecurePath(basePath, userPath)
CallCreateSecurePath(basePath, userPath) ==
  \E r \in {createSecurePath(basePath, userPath, pathLastIndex)} :
    /\ pathLastIndex' = r.lastIndex
    /\ sanRes' = [NoSanRes EXCEPT !.op = "createSecurePath", !.input = userPath,
                                  !.base = basePath, !.isValid = r.path # NullPath,
                                  !.value = r.path]
    /\ UNCHANGED xssLastIndex
    /\ UNCHANGED outsideSanitizers

NextXSS == \E input \in XssInputs : CallSanitizeXSS(input)

NextPaths ==
  \/ \E filePath \in PathInputs : CallSanitizeFilePath(filePath)
  \/ \E basePath \in BasePaths, userPath \in PathInputs :
       CallCreateSecurePath(basePath, userPath)

(***************************************************************************)
(* encryption: the decrypt paths on values that encryptPII did not make,   *)
(* and ClientService (createClient, updateClient, decryptClient).          *)
(***************************************************************************)
\* isEncrypted(data)
isEncrypted(data) ==
  LET parsed == JSONparse(utf8Decode(base64Decode(data)))
  IN data # <<>> /\ parsed.ok /\ parsed.hasEncrypted /\ parsed.hasIv

\* field values that are no strings: undefined (the key is absent) and null
Absent == <<-2>>
NullField == <<-1>>

\* if (value): a non-empty string
Truthy(v) == v \notin {Absent, NullField, <<>>}

\* values a decrypt path may meet that encryptPII did not make: text stored before the
\* fields were encrypted, text that is no base64, a token without iv, a token whose iv is
\* too short, and a well-formed token made elsewhere (another key, another system)
LegacyText == <<104, 101, 108, 108, 111>>
NotBase64 == <<64, 64, 64>>
TokenWithoutIv == base64Encode(utf8Encode(<<123, 34, 101, 110, 99, 114, 121, 112, 116, 101, 100, 34, 58, 34, 52, 49, 52, 50, 34, 125>>))
TokenShortIv == base64Encode(utf8Encode(<<123, 34, 101, 110, 99, 114, 121, 112, 116, 101, 100, 34, 58, 34, 52, 49, 52, 50, 34, 44, 34, 105, 118, 34, 58, 34, 48, 48, 34, 125>>))
ForeignToken ==
  base64Encode(utf8Encode(
    <<123, 34, 101, 110, 99, 114, 121, 112, 116, 101, 100, 34, 58, 34, 52, 49, 52, 50, 34, 44, 34, 105, 118, 34, 58, 34, 48, 48, 48, 49, 48, 50, 48, 51, 48, 52, 48, 53, 48, 54, 48, 55, 48, 56, 48, 57, 48, 97, 48, 98, 48, 99, 48, 100, 48, 101, 48, 102, 34, 125>>))
ForeignInputs == {LegacyText, NotBase64, TokenWithoutIv, TokenShortIv, ForeignToken}

\* the personal fields of a client record, and the keys of a record in the model
ClientFields == {"email", "phone", "address", "siret", "tvaNumber", "notes"}
ClientKeys == ClientFields \cup {"name"}

\* decryptFields(obj, fieldsToDecrypt)
decryptFields(obj, fieldsToDecrypt) ==
  [k \in DOMAIN obj |->
     IF k \in fieldsToDecrypt /\ Truthy(obj[k]) THEN decryptPII(obj[k]) ELSE obj[k]]

\* PII_FIELDS of the encryption module, without 'city' (no key of the model's records)
PII_FIELDS == {"email", "phone", "address", "siret", "tvaNumber", "notes"}

\* ClientService.decryptClient(client): five fields, notes is not among them
DecryptedClientFields == {"email", "phone", "address", "siret", "tvaNumber"}
decryptClient(client) ==
  [k \in DOMAIN client |->
     IF k \in DecryptedClientFields /\ Truthy(client[k]) THEN decryptPII(client[k])
     ELSE client[k]]

\* records given to the decrypt paths: each personal field null, legacy text or a
\* foreign token
ForeignRecords ==
  {[k \in ClientKeys |-> IF k = "name" THEN <<65>> ELSE f[k]] :
     f \in [ClientFields -> {NullField, LegacyText, ForeignToken}]}

NoDecRes == [op |-> "none", input |-> <<>>, output |-> <<>>]

InitDecrypt == decRes = NoDecRes

\* decryptPII(t) on a value encryptPII did not make
CallDecryptPIIOn(t) ==
  /\ decRes' = [op |-> "decryptPII", input |-> t, output |-> decryptPII(t)]
  /\ UNCHANGED outsideDecrypt

\* decryptFields(obj, PII_FIELDS)
CallDecryptFields(obj) ==
  /\ decRes' = [op |-> "decryptFields", input |-> obj,
                output |-> decryptFields(obj, PII_FIELDS)]
  /\ UNCHANGED outsideDecrypt

\* ClientService.decryptClient(client) on a row read from the database
CallDecryptClient(client) ==
  /\ decRes' = [op |-> "decryptClient", input |-> client, output |-> decryptClient(client)]
  /\ UNCHANGED outsideDecrypt

\* one call in a run
NextDecrypt ==
  \/ \E t \in ForeignInputs : decRes = NoDecRes /\ CallDecryptPIIOn(t)
  \/ \E obj \in ForeignRecords : decRes = NoDecRes /\ CallDecryptFields(obj)
  \/ \E client \in ForeignRecords : decRes = NoDecRes /\ CallDecryptClient(client)

\* sanitizeObjectXSS(obj, fieldsToSanitize) over the keys in the order keys, from the
\* k-th on: whether sanitizeXSS threw, the object, and the lastIndex of XSS_PATTERNS
RECURSIVE sanitizeObjectFrom(_, _, _, _, _)
sanitizeObjectFrom(obj, fieldsToSanitize, keys, k, li) ==
  IF k > Len(keys) THEN [threw |-> FALSE, obj |-> obj, lastIndex |-> li]
  ELSE IF keys[k] \in fieldsToSanitize /\ obj[keys[k]] \notin {Absent, NullField}
    THEN Once(sanitizeXSS(obj[keys[k]], li), LAMBDA r :
           IF r.threw THEN [threw |-> TRUE, obj |-> obj, lastIndex |-> r.lastIndex]
           ELSE Once([obj EXCEPT ![keys[k]] = r.value], LAMBDA sanitized :
                  sanitizeObjectFrom(sanitized, fieldsToSanitize, keys, k + 1,
                                     r.lastIndex)))
  ELSE sanitizeObjectFrom(obj, fieldsToSanitize, keys, k + 1, li)

\* Object.entries(data): the keys of a request body in the order of CreateClientInput
ClientKeyOrder == <<"name", "email", "phone", "siret", "tvaNumber", "address", "notes">>

sanitizeObjectXSS(obj, fieldsToSanitize, li) ==
  sanitizeObjectFrom(obj, fieldsToSanitize, ClientKeyOrder, 1, li)

\* the fields createClient sanitizes (company and city are no keys of the model's records)
CreateSanitizedFields == {"name", "notes", "address"}

\* the fields createClient and updateClient encrypt, in the order they do it
CreateEncryptOrder == <<"email", "phone", "siret", "tvaNumber", "address">>
UpdateEncryptOrder == <<"email", "phone", "address", "siret", "tvaNumber">>

\* number of fields before the k-th of order that are encrypted: each takes one iv draw
DrawsBefore(data, order, k) == Cardinality({j \in 1..(k - 1) : Truthy(data[order[j]])})

PlaceIn(order, key) == CHOOSE k \in 1..Len(order) : order[k] = key

\* data with the fields of order encrypted where they are non-empty strings; draws is
\* the number of iv draws made before
encryptClientFields(data, order, draws) ==
  [key \in DOMAIN data |->
     IF (\E k \in 1..Len(order) : order[k] = key) /\ Truthy(data[key])
       THEN encryptPII(data[key], draws + DrawsBefore(data, order, PlaceIn(order, key)) + 1)
     ELSE data[key]]

\* bounds of the client store: rows, iv draws of one run, and the rows a run that
\* creates and updates fills
MaxClients == 2
MaxClientDraws == 3
MaxCreated == 1

ClientIds == 1..MaxClients
NoClient == [k \in ClientKeys |-> Absent]
NoClientRes == [op |-> "none", id |-> 0, threw |-> FALSE, returned |-> NoClient]

\* request bodies: a name and at most two of the fields email, siret and notes, each
\* null, '' or a text; the other fields are absent
ClientTexts == {NullField, <<>>, <<104, 105>>}
ClientInputFields == {"email", "siret", "notes"}
ClientInputs ==
  {[k \in ClientKeys |->
      IF k = "name" THEN <<65>> ELSE IF k \in DOMAIN f THEN f[k] ELSE Absent] :
     f \in UNION {[fs -> ClientTexts] :
                    fs \in {g \in SUBSET ClientInputFields : Cardinality(g) <= 2}}}

InitClients ==
  /\ db = [id \in ClientIds |-> NoClient]
  /\ clientDraws = 0
  /\ clientRes = NoClientRes

\* ClientService.createClient(userId, data)
createClient(data) ==
  \E san \in {sanitizeObjectXSS(data, CreateSanitizedFields, xssLastIndex)} :
    \E encrypted \in {encryptClientFields(san.obj, CreateEncryptOrder, clientDraws)} :
      LET sanitizedData == san.obj
          existingClient ==
            \E id \in ClientIds : db[id] # NoClient /\ db[id]["email"] = sanitizedData["email"]
          clientData ==
            [k \in ClientKeys |->
               IF k = "name" THEN sanitizedData[k]
               ELSE IF k = "notes"
                 THEN (IF Truthy(sanitizedData[k]) THEN sanitizedData[k] ELSE NullField)
               ELSE IF Truthy(sanitizedData[k]) THEN encrypted[k] ELSE NullField]
          free == {id \in ClientIds : db[id] = NoClient}
          id == SetMin(free)
      IN /\ free # {}
         /\ xssLastIndex' = san.lastIndex
         /\ IF san.threw \/ (Truthy(sanitizedData["email"]) /\ existingClient)
              THEN /\ clientRes' = [NoClientRes EXCEPT !.op = "createClient", !.threw = TRUE]
                   /\ UNCHANGED <<db, clientDraws>>
              ELSE /\ db' = [db EXCEPT ![id] = clientData]
                   /\ clientDraws' = clientDraws
                        + DrawsBefore(sanitizedData, CreateEncryptOrder,
                                      Len(CreateEncryptOrder) + 1)
                   /\ clientRes' = [op |-> "createClient", id |-> id, threw |-> FALSE,
                                    returned |-> decryptClient(db'[id])]
         /\ UNCHANGED <<pathLastIndex, sanRes>>
         /\ UNCHANGED outsideClients

\* ClientService.updateClient(userId, clientId, data)
updateClient(clientId, data) ==
  \E updateData \in {encryptClientFields(data, UpdateEncryptOrder, clientDraws)} :
    LET existingClient == db[clientId] # NoClient
        client == [k \in ClientKeys |->
                     IF updateData[k] = Absent THEN db[clientId][k] ELSE updateData[k]]
    IN /\ IF ~existingClient
            THEN /\ clientRes' = [NoClientRes EXCEPT !.op = "updateClient", !.id = clientId,
                                                     !.threw = TRUE]
                 /\ UNCHANGED <<db, clientDraws>>
            ELSE /\ db' = [db EXCEPT ![clientId] = client]
                 /\ clientDraws' = clientDraws
                      + DrawsBefore(data, UpdateEncryptOrder, Len(UpdateEncryptOrder) + 1)
                 /\ clientRes' = [op |-> "updateClient", id |-> clientId, threw |-> FALSE,
                                  returned |-> decryptClient(db'[clientId])]
       /\ UNCHANGED <<xssLastIndex, pathLastIndex, sanRes>>
       /\ UNCHANGED outsideClients

\* the rows of the table that hold a client
Created == {id \in ClientIds : db[id] # NoClient}

MayCreate == clientDraws < MaxClientDraws /\ Cardinality(Created) < MaxCreated

NextClients ==
  \/ \E data \in ClientInputs : MayCreate /\ createClient(data)
  \/ \E clientId \in ClientIds, data \in ClientInputs :
       clientDraws < MaxClientDraws /\ updateClient(clientId, data)

\* request bodies with a name and the fields email and siret, each absent, null, ''
\* or a text
EmailInputs == {data \in ClientInputs : data["notes"] = Absent}

MayDraw == clientDraws < MaxClientDraws

\* clients created and updated one after the other for one freelancer
NextEmails ==
  \/ \E data \in EmailInputs : MayDraw /\ createClient(data)
  \/ \E clientId \in ClientIds, data \in EmailInputs : MayDraw /\ updateClient(clientId, data)

\* request bodies whose name and notes are a plain text or hold an event handler
\* attribute; the other fields are absent
MarkupText == <<111, 110, 101, 114, 114, 111, 114, 61, 120>>
MarkupInputs ==
  {[k \in ClientKeys |->
      IF k = "name" THEN name ELSE IF k = "notes" THEN notes ELSE Absent] :
     name \in {<<65>>, MarkupText}, notes \in {Absent, <<104, 105>>, MarkupText}}

\* clients created and updated with such bodies
NextMarkup ==
  \/ \E data \in MarkupInputs : createClient(data)
  \/ \E clientId \in ClientIds, data \in MarkupInputs : updateClient(clientId, data)

\* the limiter serves MaxRequests requests, interleaved, the cache failing at will
NextRateLimit ==
  \/ \E p \in Procs, ip \in Clients, ep \in InterleavedEndpoints :
       started < MaxRequests /\ Start(p, ip, ep)
  \/ \E p \in Procs, up \in BOOLEAN : Step(p, up)
  \/ Tick

\* one request at a time, the cache always reachable
NextSeq ==
  \/ \E p \in Procs, ip \in Clients, ep \in Endpoints : InFlight = {} /\ Start(p, ip, ep)
  \/ \E p \in Procs : Step(p, TRUE)
  \/ Tick

(***************************************************************************)
(* cors-security.ts: isOriginAllowed, and the hooks of a request in the    *)
(* order buildServer registers them (setup.ts).                            *)
(***************************************************************************)
IsDigitUnit(c) == c >= 48 /\ c <= 57
IsSchemeUnit(c) == IsAsciiLetter(c) \/ IsDigitUnit(c) \/ c \in {43, 45, 46}

toUpperUnit(c) == IF c >= 97 /\ c <= 122 THEN c - 32 ELSE c
toUpperCase(s) == [i \in 1..Len(s) |-> toUpperUnit(s[i])]

\* the schemes whose URLs have a tuple origin, with their default ports; every other
\* scheme (file, data, chrome-extension, capacitor, ...) has the opaque origin 'null'
SpecialSchemes == {<<104, 116, 116, 112>>, <<104, 116, 116, 112, 115>>, <<119, 115>>, <<119, 115, 115>>, <<102, 116, 112>>}
DefaultPort(scheme) ==
  CASE scheme \in {<<104, 116, 116, 112>>, <<119, 115>>} -> 80
    [] scheme \in {<<104, 116, 116, 112, 115>>, <<119, 115, 115>>} -> 443
    [] scheme = <<102, 116, 112>> -> 21
    [] OTHER -> -1

\* the number written by the decimal digits d
RECURSIVE DigitsValue(_)
DigitsValue(d) ==
  Once(d, LAMBDA v :
    IF v = <<>> THEN 0
    ELSE DigitsValue(SubSeq(v, 1, Len(v) - 1)) * 10 + (v[Len(v)] - 48))

\* the decimal digits of n
RECURSIVE ToDigits(_)
ToDigits(n) ==
  Once(n, LAMBDA v : IF v < 10 THEN <<48 + v>> ELSE ToDigits(v \div 10) \o <<48 + (v % 10)>>)

\* parseInt(s) of a string of digits; NaN for the empty string
NaN == -1
parseInt(s) == IF s = <<>> THEN NaN ELSE DigitsValue(s)

\* new URL(...) throws TypeError
InvalidURL ==
  [ok |-> FALSE, protocol |-> <<>>, hostname |-> <<>>, port |-> <<>>, origin |-> <<>>]

\* host and port of an authority (userinfo set aside): an IPv6 address keeps its
\* brackets in hostname; white space, and a port that is no number up to 65535, are
\* invalid
ParseAuthority(authority) ==
  Once(IF \E i \in 1..Len(authority) : authority[i] = 64
         THEN SubSeq(authority, SetMax({i \in 1..Len(authority) : authority[i] = 64}) + 1,
                     Len(authority))
       ELSE authority,
       LAMBDA hostport :
         Once(IF hostport # <<>> /\ hostport[1] = 91
                THEN indexOfUnit(hostport, 93, 0) + 1
              ELSE IF indexOfUnit(hostport, 58, 0) = -1 THEN Len(hostport)
              ELSE indexOfUnit(hostport, 58, 0),
              LAMBDA hostEnd :
                LET host == SubSeq(hostport, 1, hostEnd)
                    after == SubSeq(hostport, hostEnd + 1, Len(hostport))
                    digits == SubSeq(after, 2, Len(after))
                    bracketed == hostport # <<>> /\ hostport[1] = 91
                IN IF \/ (bracketed /\ hostEnd = 0)
                      \/ (bracketed /\ \E i \in 2..(hostEnd - 1) :
                                         ~(IsHexUnit(host[i]) \/ host[i] = 58))
                      \/ \E i \in 1..Len(host) : host[i] \in {32, 60, 62, 94, 124}
                      \/ (after # <<>> /\ after[1] # 58)
                      \/ \E i \in 1..Len(digits) : ~IsDigitUnit(digits[i])
                      \/ Len(digits) > 5
                      \/ (digits # <<>> /\ DigitsValue(digits) > 65535)
                     THEN [ok |-> FALSE, hostname |-> <<>>, port |-> NaN]
                   ELSE [ok |-> TRUE, hostname |-> host, port |-> parseInt(digits)]))

\* new URL(input) without a base, for the inputs scheme:..., with the members the
\* source reads: protocol, hostname, port and origin. A default port is dropped, the
\* scheme and the host of a special scheme are lower-cased. (Not modelled: the
\* canonical forms of IPv4 and IPv6 addresses, percent-encoding, IDNA.)
ParseURL(input) ==
  Once(trim(input), LAMBDA s :
  Once(indexOfUnit(s, 58, 0), LAMBDA colon :
    IF colon < 1 \/ ~IsAsciiLetter(s[1]) \/ \E i \in 1..colon : ~IsSchemeUnit(s[i])
      THEN InvalidURL
    ELSE
      Once(toLowerCase(SubSeq(s, 1, colon)), LAMBDA scheme :
      Once(SubSeq(s, colon + 2, Len(s)), LAMBDA rest :
        LET special == scheme \in SpecialSchemes
            Slash(c) == c = 47 \/ (special /\ c = 92)
            \* a special scheme skips every leading slash, another needs '//'
            skipped == IF special
                         THEN SetMin({n \in 0..Len(rest) :
                                        n = Len(rest) \/ ~Slash(rest[n + 1])})
                       ELSE IF StartsWithAt(rest, 0, <<47, 47>>, FALSE) THEN 2 ELSE -1
        IN IF skipped = -1
             THEN [ok |-> TRUE, protocol |-> scheme \o <<58>>, hostname |-> <<>>,
                   port |-> <<>>, origin |-> <<110, 117, 108, 108>>]
           ELSE
             Once(SetMin({n \in skipped..Len(rest) :
                            n = Len(rest) \/ Slash(rest[n + 1]) \/ rest[n + 1] \in {35, 63}}),
                  LAMBDA authEnd :
             Once(ParseAuthority(SubSeq(rest, skipped + 1, authEnd)), LAMBDA a :
               IF ~a.ok \/ (special /\ a.hostname = <<>>) THEN InvalidURL
               ELSE
                 LET hostname == IF special THEN toLowerCase(a.hostname) ELSE a.hostname
                     port == IF a.port = NaN \/ a.port = DefaultPort(scheme) THEN <<>>
                             ELSE ToDigits(a.port)
                 IN [ok |-> TRUE, protocol |-> scheme \o <<58>>, hostname |-> hostname,
                     port |-> port,
                     origin |-> IF special
                                  THEN scheme \o <<58, 47, 47>> \o hostname
                                         \o (IF port = <<>> THEN <<>> ELSE <<58>> \o port)
                                ELSE <<110, 117, 108, 108>>]))))))

\* config/env.ts: NODE_ENV, and FRONTEND_URL, any string that z.string().url() accepts
Environments == {"development", "production", "test"}
FrontendUrls ==
  {u \in {<<104, 116, 116, 112, 58, 47, 47, 108, 111, 99, 97, 108, 104, 111, 115, 116, 58, 53, 49, 55, 51>>, <<104, 116, 116, 112, 58, 47, 47, 108, 111, 99, 97, 108, 104, 111, 115, 116, 58, 57, 48, 48, 48>>, <<99, 97, 112, 97, 99, 105, 116, 111, 114, 58, 47, 47, 108, 111, 99, 97, 108, 104, 111, 115, 116>>,
          <<108, 111, 99, 97, 108, 104, 111, 115, 116, 58, 53, 49, 55, 51, 47, 97, 112, 112>>} : ParseURL(u).ok}
NoConfig == [NODE_ENV |-> "unset", FRONTEND_URL |-> <<>>]

\* PRODUCTION_ALLOWED_ORIGINS, with config.FRONTEND_URL of the loaded configuration
PRODUCTION_ALLOWED_ORIGINS ==
  SelectSeq(<<config.FRONTEND_URL, <<104, 116, 116, 112, 115, 58, 47, 47, 102, 114, 101, 101, 108, 97, 110, 99, 101, 45, 111, 115, 46, 99, 111, 109>>,
              <<104, 116, 116, 112, 115, 58, 47, 47, 119, 119, 119, 46, 102, 114, 101, 101, 108, 97, 110, 99, 101, 45, 111, 115, 46, 99, 111, 109>>, <<104, 116, 116, 112, 115, 58, 47, 47, 97, 112, 112, 46, 102, 114, 101, 101, 108, 97, 110, 99, 101, 45, 111, 115, 46, 99, 111, 109>>>>,
            LAMBDA allowed : allowed # <<>>)

DEV_ALLOWED_PORTS == {3000, 3001, 5173, 5174, 8080, 8081, 4200}

FORBIDDEN_METHODS ==
  {<<84, 82, 65, 67, 69>>, <<67, 79, 78, 78, 69, 67, 84>>, <<80, 82, 79, 80, 70, 73, 78, 68>>, <<80, 82, 79, 80, 80, 65, 84, 67, 72>>, <<77, 75, 67, 79, 76>>, <<67, 79, 80, 89>>, <<77, 79, 86, 69>>}

\* isOriginAllowed(origin, environment)
isOriginAllowed(origin, environment) ==
  IF origin \in {Absent, <<>>} THEN environment = "development"
  ELSE
    Once(ParseURL(origin), LAMBDA url :
      IF ~url.ok THEN FALSE
      ELSE
        Once(\E k \in 1..Len(PRODUCTION_ALLOWED_ORIGINS) :
               \E allowedUrl \in {ParseURL(PRODUCTION_ALLOWED_ORIGINS[k])} :
                 allowedUrl.ok /\ url.origin = allowedUrl.origin,
             LAMBDA isProductionOrigin :
               IF environment = "production" THEN isProductionOrigin
               ELSE IF environment = "development"
                 THEN LET isLocal == url.hostname \in {<<108, 111, 99, 97, 108, 104, 111, 115, 116>>, <<49, 50, 55, 46, 48, 46, 48, 46, 49>>, <<58, 58, 49>>}
                          parsed == parseInt(url.port)
                          port == IF parsed \notin {NaN, 0} THEN parsed
                                  ELSE IF url.protocol = <<104, 116, 116, 112, 115, 58>> THEN 443 ELSE 80
                      IN IF ~isLocal /\ ~isProductionOrigin THEN FALSE
                         ELSE IF isLocal /\ port \notin DEV_ALLOWED_PORTS THEN FALSE
                         ELSE TRUE
               ELSE FALSE))

\* bound of the runs: calls of testCorsOrigin and requests received
MaxCorsCalls == 1

\* the origins given to isOriginAllowed and sent in the Origin header
OriginInputs ==
  { <<104, 116, 116, 112, 115, 58, 47, 47, 97, 112, 112, 46, 102, 114, 101, 101, 108, 97, 110, 99, 101, 45, 111, 115, 46, 99, 111, 109>>, <<104, 116, 116, 112, 115, 58, 47, 47, 97, 112, 112, 46, 102, 114, 101, 101, 108, 97, 110, 99, 101, 45, 111, 115, 46, 99, 111, 109, 58, 52, 52, 51>>,
    <<104, 116, 116, 112, 115, 58, 47, 47, 97, 112, 112, 46, 102, 114, 101, 101, 108, 97, 110, 99, 101, 45, 111, 115, 46, 99, 111, 109, 58, 56, 52, 52, 51>>, <<104, 116, 116, 112, 58, 47, 47, 97, 112, 112, 46, 102, 114, 101, 101, 108, 97, 110, 99, 101, 45, 111, 115, 46, 99, 111, 109>>,
    <<104, 116, 116, 112, 58, 47, 47, 101, 118, 105, 108, 46, 101, 120, 97, 109, 112, 108, 101, 46, 99, 111, 109>>, <<104, 116, 116, 112, 58, 47, 47, 108, 111, 99, 97, 108, 104, 111, 115, 116, 58, 53, 49, 55, 51>>, <<104, 116, 116, 112, 58, 47, 47, 108, 111, 99, 97, 108, 104, 111, 115, 116, 58, 57, 48, 48, 48>>,
    <<104, 116, 116, 112, 58, 47, 47, 108, 111, 99, 97, 108, 104, 111, 115, 116>>, <<104, 116, 116, 112, 58, 47, 47, 49, 50, 55, 46, 48, 46, 48, 46, 49, 58, 51, 48, 48, 48>>, <<104, 116, 116, 112, 58, 47, 47, 91, 58, 58, 49, 93, 58, 53, 49, 55, 51>>,
    <<99, 104, 114, 111, 109, 101, 45, 101, 120, 116, 101, 110, 115, 105, 111, 110, 58, 47, 47, 97, 97, 97>>, <<110, 117, 108, 108>> }

\* the requests: method, Origin and Referer headers (Absent: no such header) and the
\* query parameter file
Methods == FORBIDDEN_METHODS \cup {<<71, 69, 84>>, <<72, 69, 65, 68>>, <<79, 80, 84, 73, 79, 78, 83>>, <<80, 79, 83, 84>>, <<68, 69, 76, 69, 84, 69>>}
OriginHeaders ==
  {Absent, <<104, 116, 116, 112, 115, 58, 47, 47, 97, 112, 112, 46, 102, 114, 101, 101, 108, 97, 110, 99, 101, 45, 111, 115, 46, 99, 111, 109>>, <<104, 116, 116, 112, 58, 47, 47, 101, 118, 105, 108, 46, 101, 120, 97, 109, 112, 108, 101, 46, 99, 111, 109>>,
   <<99, 104, 114, 111, 109, 101, 45, 101, 120, 116, 101, 110, 115, 105, 111, 110, 58, 47, 47, 97, 97, 97>>, <<110, 117, 108, 108>>}
RefererHeaders ==
  {Absent, <<104, 116, 116, 112, 115, 58, 47, 47, 97, 112, 112, 46, 102, 114, 101, 101, 108, 97, 110, 99, 101, 45, 111, 115, 46, 99, 111, 109, 47, 99, 108, 105, 101, 110, 116, 115>>, <<104, 116, 116, 112, 58, 47, 47, 101, 118, 105, 108, 46, 101, 120, 97, 109, 112, 108, 101, 46, 99, 111, 109, 47, 120>>,
   <<99, 104, 114, 111, 109, 101, 45, 101, 120, 116, 101, 110, 115, 105, 111, 110, 58, 47, 47, 98, 98, 98, 47, 112, 97, 103, 101, 46, 104, 116, 109, 108>>, <<97, 98, 111, 117, 116, 58, 98, 108, 97, 110, 107>>}
QueryFiles == {Absent, <<46, 46>>, <<97, 46, 116, 120, 116>>}
Requests ==
  [method : Methods, origin : OriginHeaders, referer : RefererHeaders, file : QueryFiles]

NoCorsRequest == [method |-> <<>>, origin |-> Absent, referer |-> Absent, file |-> Absent]
NoReply == [status |-> 0, code |-> "none"]
NoCorsRes == [called |-> FALSE, origin |-> Absent, allowed |-> FALSE]

InitCors ==
  /\ config = NoConfig
  /\ corsCalls = 0
  /\ corsRes = NoCorsRes
  /\ request = NoCorsRequest
  /\ stage = "idle"
  /\ hookTrace = <<>>
  /\ reply = NoReply

\* config = envSchema.parse(process.env), when the module is loaded
LoadConfig(env, url) ==
  /\ config = NoConfig
  /\ config' = [NODE_ENV |-> env, FRONTEND_URL |-> url]
  /\ UNCHANGED <<corsCalls, corsRes, request, stage, hookTrace, reply>>
  /\ UNCHANGED sanVars
  /\ UNCHANGED outsideCors

\* testCorsOrigin(origin)
testCorsOrigin(origin) ==
  /\ config # NoConfig
  /\ stage \in {"idle", "done"}
  /\ corsCalls < MaxCorsCalls
  /\ corsCalls' = corsCalls + 1
  /\ corsRes' = [called |-> TRUE, origin |-> origin,
                 allowed |-> isOriginAllowed(origin, config.NODE_ENV)]
  /\ UNCHANGED <<config, request, stage, hookTrace, reply>>
  /\ UNCHANGED sanVars
  /\ UNCHANGED outsideCors

\* a request arrives
Receive(req) ==
  /\ config # NoConfig
  /\ stage \in {"idle", "done"}
  /\ corsCalls < MaxCorsCalls
  /\ corsCalls' = corsCalls + 1
  /\ request' = req
  /\ stage' = "onRequest"
  /\ hookTrace' = <<>>
  /\ reply' = NoReply
  /\ UNCHANGED <<config, corsRes>>
  /\ UNCHANGED sanVars
  /\ UNCHANGED outsideCors

\* onRequest: the cors plugin calls SECURE_CORS_CONFIG.origin(origin, callback), which
\* calls isOriginAllowed and callback(null, allowed); the plugin sends no reply of its
\* own for a request that is no preflight
CorsPluginOnRequest ==
  /\ stage = "onRequest"
  /\ corsRes' = [called |-> TRUE, origin |-> request.origin,
                 allowed |-> isOriginAllowed(request.origin, config.NODE_ENV)]
  /\ hookTrace' = Append(hookTrace, "isOriginAllowed")
  /\ stage' = "pathTraversalValidationHook"
  /\ UNCHANGED <<config, corsCalls, request, reply>>
  /\ UNCHANGED sanVars
  /\ UNCHANGED outsideCors

\* preHandler 1: pathTraversalValidationHook, on the query parameter file
PathTraversalValidationHook ==
  /\ stage = "pathTraversalValidationHook"
  /\ hookTrace' = Append(hookTrace, "pathTraversalValidationHook")
  /\ IF request.file \in {Absent, <<>>}
       THEN /\ stage' = "corsSecurityMiddleware"
            /\ UNCHANGED <<reply, pathLastIndex>>
       ELSE \E validation \in {sanitizeFilePath(request.file, pathLastIndex)} :
              /\ pathLastIndex' = validation.lastIndex
              /\ IF ~validation.isValid
                   THEN /\ reply' = [status |-> 400, code |-> "INVALID_QUERY_PARAM"]
                        /\ stage' = "done"
                   ELSE /\ stage' = "corsSecurityMiddleware"
                        /\ UNCHANGED reply
  /\ UNCHANGED <<config, corsCalls, corsRes, request>>
  /\ UNCHANGED <<xssLastIndex, sanRes>>
  /\ UNCHANGED outsideCors

\* preHandler 2: corsSecurityMiddleware
CorsSecurityMiddleware ==
  /\ stage = "corsSecurityMiddleware"
  /\ LET origin == request.origin
         referer == request.referer
         method == toUpperCase(request.method)
         compared == /\ request.method \notin {<<71, 69, 84>>, <<72, 69, 65, 68>>, <<79, 80, 84, 73, 79, 78, 83>>}
                     /\ origin \notin {Absent, <<>>} /\ referer \notin {Absent, <<>>}
     IN IF method \in FORBIDDEN_METHODS
          THEN /\ hookTrace' = Append(hookTrace, "corsSecurityMiddleware")
               /\ reply' = [status |-> 405, code |-> "METHOD_NOT_ALLOWED"]
               /\ stage' = "done"
        ELSE IF compared
          THEN \E originUrl \in {ParseURL(origin)}, refererUrl \in {ParseURL(referer)} :
                 /\ hookTrace' = hookTrace \o <<"corsSecurityMiddleware", "originReferer">>
                 /\ IF ~originUrl.ok \/ ~refererUrl.ok
                      THEN /\ reply' = [status |-> 400, code |-> "MALFORMED_HEADERS"]
                           /\ stage' = "done"
                    ELSE IF originUrl.origin # refererUrl.origin
                      THEN /\ reply' = [status |-> 403, code |-> "CORS_SECURITY_VIOLATION"]
                           /\ stage' = "done"
                    ELSE /\ stage' = "advancedRateLimitMiddleware"
                         /\ UNCHANGED reply
        ELSE /\ hookTrace' = Append(hookTrace, "corsSecurityMiddleware")
             /\ stage' = "advancedRateLimitMiddleware"
             /\ UNCHANGED reply
  /\ UNCHANGED <<config, corsCalls, corsRes, request>>
  /\ UNCHANGED sanVars
  /\ UNCHANGED outsideCors

\* preHandler 3: advancedRateLimitMiddleware, which admits the request or replies 429
\* according to the counters of the limiter
AdvancedRateLimitHook(admitted) ==
  /\ stage = "advancedRateLimitMiddleware"
  /\ hookTrace' = Append(hookTrace, "advancedRateLimitMiddleware")
  /\ IF admitted
       THEN /\ stage' = "handler"
            /\ UNCHANGED reply
       ELSE /\ reply' = [status |-> 429, code |-> "RATE_LIMIT_EXCEEDED"]
            /\ stage' = "done"
  /\ UNCHANGED <<config, corsCalls, corsRes, request>>
  /\ UNCHANGED sanVars
  /\ UNCHANGED outsideCors

\* the route handler
Handler ==
  /\ stage = "handler"
  /\ hookTrace' = Append(hookTrace, "handler")
  /\ reply' = [status |-> 200, code |-> "OK"]
  /\ stage' = "done"
  /\ UNCHANGED <<config, corsCalls, corsRes, request>>
  /\ UNCHANGED sanVars
  /\ UNCHANGED outsideCors

NextCors ==
  \/ \E env \in Environments, url \in FrontendUrls : LoadConfig(env, url)
  \/ \E origin \in OriginInputs \cup {Absent} : testCorsOrigin(origin)
  \/ \E req \in Requests : Receive(req)
  \/ CorsPluginOnRequest
  \/ PathTraversalValidationHook
  \/ CorsSecurityMiddleware
  \/ \E admitted \in BOOLEAN : AdvancedRateLimitHook(admitted)
  \/ Handler

(***************************************************************************)
(* routes/auth.ts behind advancedRateLimitMiddleware: the preHandler hook  *)
(* has returned without sending, the route handler runs and answers.       *)
(***************************************************************************)
NoServed == [req |-> NoRequest, ok |-> FALSE]

InitOutcome ==
  /\ served = NoServed
  /\ authFailed = FALSE

\* the hook of some request has returned without a reply: its route handler is to run
HandlerPending == out.proc # 0 /\ out.code = 0 /\ pc[out.proc] = "idle"

\* the route handler answers: ok is a 2xx answer (login: 200 with the tokens), ~ok not
\* (login: 401 'Email ou mot de passe incorrect'); no handler writes to the limiter's keys
RouteHandler(ok) ==
  /\ HandlerPending
  /\ served' = [req |-> out.req, ok |-> ok]
  /\ authFailed' = (authFailed \/ (~ok /\ limitTypeOf(out.req) = "auth"))
  /\ out' = Quiet
  /\ UNCHANGED <<clock, window, winExp, block, pc, rq, now, currentCount, degraded, peak, started>>
  /\ UNCHANGED outsideOutcome

\* a request is taken when no other is in the limiter or waiting for its handler
MayStart == InFlight = {} /\ ~HandlerPending

\* one request at a time from the limiter to its route handler, the cache up
NextOutcome ==
  \/ \E p \in Procs, ip \in Clients, ep \in Endpoints : MayStart /\ Start(p, ip, ep)
  \/ \E p \in Procs : Step(p, TRUE)
  \/ \E ok \in BOOLEAN : RouteHandler(ok)
  \/ ~HandlerPending /\ Tick

(***************************************************************************)
(* secure-error-handler.ts                                                 *)
(***************************************************************************)
ErrorTypes ==
  {"VALIDATION_ERROR", "AUTHENTICATION_ERROR", "AUTHORIZATION_ERROR", "RESOURCE_NOT_FOUND",
   "RATE_LIMIT_EXCEEDED", "INTERNAL_SERVER_ERROR", "DATABASE_ERROR", "EXTERNAL_SERVICE_ERROR",
   "SECURITY_VIOLATION"}

\* USER_ERROR_MESSAGES
USER_ERROR_MESSAGES ==
  [t \in ErrorTypes |->
     CASE t = "VALIDATION_ERROR" -> <<76, 101, 115, 32, 100, 111, 110, 110, 233, 101, 115, 32, 102, 111, 117, 114, 110, 105, 101, 115, 32, 110, 101, 32, 115, 111, 110, 116, 32, 112, 97, 115, 32, 118, 97, 108, 105, 100, 101, 115, 46>>
       [] t = "AUTHENTICATION_ERROR" -> <<65, 117, 116, 104, 101, 110, 116, 105, 102, 105, 99, 97, 116, 105, 111, 110, 32, 114, 101, 113, 117, 105, 115, 101, 46>>
       [] t = "AUTHORIZATION_ERROR" -> <<65, 99, 99, 232, 115, 32, 110, 111, 110, 32, 97, 117, 116, 111, 114, 105, 115, 233, 46>>
       [] t = "RESOURCE_NOT_FOUND" -> <<82, 101, 115, 115, 111, 117, 114, 99, 101, 32, 105, 110, 116, 114, 111, 117, 118, 97, 98, 108, 101, 46>>
       [] t = "RATE_LIMIT_EXCEEDED" -> <<84, 114, 111, 112, 32, 100, 101, 32, 114, 101, 113, 117, 234, 116, 101, 115, 46, 32, 86, 101, 117, 105, 108, 108, 101, 122, 32, 114, 233, 101, 115, 115, 97, 121, 101, 114, 32, 112, 108, 117, 115, 32, 116, 97, 114, 100, 46>>
       [] t = "INTERNAL_SERVER_ERROR" -> <<85, 110, 101, 32, 101, 114, 114, 101, 117, 114, 32, 105, 110, 116, 101, 114, 110, 101, 32, 101, 115, 116, 32, 115, 117, 114, 118, 101, 110, 117, 101, 46>>
       [] t = "DATABASE_ERROR" -> <<69, 114, 114, 101, 117, 114, 32, 100, 101, 32, 98, 97, 115, 101, 32, 100, 101, 32, 100, 111, 110, 110, 233, 101, 115, 46>>
       [] t = "EXTERNAL_SERVICE_ERROR" -> <<83, 101, 114, 118, 105, 99, 101, 32, 101, 120, 116, 101, 114, 110, 101, 32, 105, 110, 100, 105, 115, 112, 111, 110, 105, 98, 108, 101, 46>>
       [] t = "SECURITY_VIOLATION" -> <<86, 105, 111, 108, 97, 116, 105, 111, 110, 32, 100, 101, 32, 115, 233, 99, 117, 114, 105, 116, 233, 32, 100, 233, 116, 101, 99, 116, 233, 101, 46>>]

\* ERROR_STATUS_CODES
ERROR_STATUS_CODES ==
  [t \in ErrorTypes |->
     CASE t = "VALIDATION_ERROR" -> 400
       [] t = "AUTHENTICATION_ERROR" -> 401
       [] t = "AUTHORIZATION_ERROR" -> 403
       [] t = "RESOURCE_NOT_FOUND" -> 404
       [] t = "RATE_LIMIT_EXCEEDED" -> 429
       [] t = "INTERNAL_SERVER_ERROR" -> 500
       [] t = "DATABASE_ERROR" -> 500
       [] t = "EXTERNAL_SERVICE_ERROR" -> 503
       [] t = "SECURITY_VIOLATION" -> 403]

\* const env = { NODE_ENV: process.env.NODE_ENV || 'development' }; Unset: the variable
\* is not set
Unset == "(unset)"
ProcessEnvValues == {Unset, "", "production", "development", "test"}
envNODE_ENV(processEnv) == IF processEnv \in {Unset, ""} THEN "development" ELSE processEnv

\* bound: errors handled in a run
MaxErrors == 2

\* the Error objects thrown: name, message, stack (NoStack: the property is absent)
NoStack == <<-1>>
ErrorMessages ==
  {<<85, 110, 97, 117, 116, 104, 111, 114, 105, 122, 101, 100>>,
   <<70, 111, 114, 98, 105, 100, 100, 101, 110>>,
   <<114, 97, 116, 101, 32, 108, 105, 109, 105, 116, 32, 114, 101, 97, 99, 104, 101, 100>>,
   <<100, 97, 116, 97, 98, 97, 115, 101, 32, 105, 115, 32, 100, 111, 119, 110>>,
   <<99, 111, 110, 110, 101, 99, 116, 105, 111, 110, 32, 114, 101, 102, 117, 115, 101, 100>>,
   <<115, 101, 99, 117, 114, 105, 116, 121, 32, 97, 116, 116, 97, 99, 107>>,
   <<97, 116, 116, 97, 99, 107>>,
   <<98, 111, 111, 109>>,
   <<117, 110, 97, 117, 116, 104, 111, 114, 105, 122, 101, 100>>,
   <<70, 111, 114, 98, 105, 100, 100, 101, 110, 58, 32, 85, 110, 97, 117, 116, 104, 111, 114, 105, 122, 101, 100>>}
StackOf(message) == <<69, 114, 114, 111, 114, 58, 32>> \o message \o <<10, 32, 32, 32, 32, 97, 116, 32, 47, 115, 114, 118, 47, 97, 112, 112, 47, 100, 105, 115, 116, 47, 120, 46, 106, 115, 58, 49, 58, 49>>
Errors ==
  {[name |-> n, message |-> m, stack |-> s] :
     n \in {"Error", "ValidationError"}, m \in ErrorMessages, s \in {NoStack}}
    \cup {[name |-> "Error", message |-> m, stack |-> StackOf(m)] : m \in ErrorMessages}

\* the requests whose handling threw
ErrorRequests ==
  {[id |-> "req-1", url |-> "/api/v1/clients", method |-> "POST", ip |-> "1.2.3.4",
    userAgent |-> "curl"]}

NoOption == "(undefined)"
NoOptions ==
  [userMessage |-> NoOption, statusCode |-> 0, severity |-> NoOption, metadata |-> NoOption,
   requestId |-> NoOption, userId |-> NoOption]

\* generateErrorId(): `ERR_${Date.now()}_${random}`, a new identifier for each error
generateErrorId(n) == [err |-> n]

\* determineSeverity(type, statusCode)
determineSeverity(type, statusCode) ==
  IF type = "SECURITY_VIOLATION" THEN "CRITICAL"
  ELSE IF statusCode >= 500 THEN "HIGH"
  ELSE IF statusCode >= 400 THEN "MEDIUM"
  ELSE "LOW"

\* createSecureError(type, originalError, options); n: errors created before
createSecureError(type, originalError, options, n) ==
  LET statusCode == IF options.statusCode # 0 THEN options.statusCode
                    ELSE ERROR_STATUS_CODES[type]
      severity == IF options.severity # NoOption THEN options.severity
                  ELSE determineSeverity(type, statusCode)
  IN [id |-> generateErrorId(n + 1),
      type |-> type,
      severity |-> severity,
      message |-> originalError.message,
      userMessage |-> IF options.userMessage # NoOption THEN options.userMessage
                      ELSE USER_ERROR_MESSAGES[type],
      statusCode |-> statusCode,
      timestamp |-> [date |-> n + 1],
      requestId |-> options.requestId,
      userId |-> options.userId,
      metadata |-> options.metadata]

\* sanitizeStackTrace(error): the stack with its paths and locations masked
sanitizeStackTrace(error) ==
  IF error.stack = NoStack THEN [text |-> "No stack trace available"]
  ELSE [masked |-> error.stack]

\* the level and title logSecureError logs a severity with
logLevelOf(severity) ==
  CASE severity = "CRITICAL" -> [level |-> "error", title |-> "ERREUR CRITIQUE"]
    [] severity = "HIGH" -> [level |-> "error", title |-> "ERREUR ÉLEVÉE"]
    [] severity = "MEDIUM" -> [level |-> "warn", title |-> "ERREUR MOYENNE"]
    [] severity = "LOW" -> [level |-> "info", title |-> "ERREUR FAIBLE"]
    [] OTHER -> [level |-> "none", title |-> ""]

\* f with the pairs of g added (Object.assign(f, g))
ObjectAssign(f, g) ==
  [k \in DOMAIN f \cup DOMAIN g |-> IF k \in DOMAIN g THEN g[k] ELSE f[k]]

\* logSecureError(secureError, originalError): the entry written to secureLogger
logSecureError(secureError, originalError, nodeEnv) ==
  LET logData == [errorId |-> secureError.id, type |-> secureError.type,
                  severity |-> secureError.severity, statusCode |-> secureError.statusCode,
                  requestId |-> secureError.requestId, userId |-> secureError.userId,
                  userMessage |-> secureError.userMessage,
                  timestamp |-> secureError.timestamp, metadata |-> secureError.metadata]
      data == IF nodeEnv = "development" /\ originalError.stack # NoStack
                THEN ObjectAssign(logData, [internalMessage |-> secureError.message,
                                            stackTrace |-> sanitizeStackTrace(originalError)])
              ELSE logData
  IN [level |-> logLevelOf(secureError.severity).level,
      title |-> logLevelOf(secureError.severity).title,
      data |-> data]

\* faulty variant of sendSecureErrorResponse, for C21: the details are added unless the
\* environment is 'test'
sendSecureErrorResponseDetailed(secureError, nodeEnv) ==
  LET error == [id |-> secureError.id, type |-> secureError.type,
                message |-> secureError.userMessage, timestamp |-> secureError.timestamp]
  IN [status |-> secureError.statusCode,
      body |-> [error |-> IF nodeEnv # "test"
                            THEN ObjectAssign(error, [internalMessage |-> secureError.message,
                                                      severity |-> secureError.severity,
                                                      metadata |-> secureError.metadata])
                          ELSE error]]

\* sendSecureErrorResponse(reply, secureError): the status and the body sent
sendSecureErrorResponse(secureError, nodeEnv) ==
  LET error == [id |-> secureError.id, type |-> secureError.type,
                message |-> secureError.userMessage, timestamp |-> secureError.timestamp]
  IN [status |-> secureError.statusCode,
      body |-> [error |-> IF nodeEnv = "development"
                            THEN ObjectAssign(error, [internalMessage |-> secureError.message,
                                                      severity |-> secureError.severity,
                                                      metadata |-> secureError.metadata])
                          ELSE error]]

\* the type secureErrorHandler gives an error and the options it creates the
\* SecureError with
errorTypeOf(error) ==
  IF error.name = "ValidationError" THEN "VALIDATION_ERROR"
  ELSE IF includes(error.message, <<85, 110, 97, 117, 116, 104, 111, 114, 105, 122, 101, 100>>) THEN "AUTHENTICATION_ERROR"
  ELSE IF includes(error.message, <<70, 111, 114, 98, 105, 100, 100, 101, 110>>) THEN "AUTHORIZATION_ERROR"
  ELSE IF includes(error.message, <<114, 97, 116, 101, 32, 108, 105, 109, 105, 116>>) THEN "RATE_LIMIT_EXCEEDED"
  ELSE IF includes(error.message, <<100, 97, 116, 97, 98, 97, 115, 101>>)
          \/ includes(error.message, <<99, 111, 110, 110, 101, 99, 116, 105, 111, 110>>) THEN "DATABASE_ERROR"
  ELSE IF includes(error.message, <<115, 101, 99, 117, 114, 105, 116, 121>>)
          \/ includes(error.message, <<97, 116, 116, 97, 99, 107>>) THEN "SECURITY_VIOLATION"
  ELSE "INTERNAL_SERVER_ERROR"

errorOptionsOf(error, req) ==
  LET type == errorTypeOf(error)
      withId == [NoOptions EXCEPT !.requestId = req.id]
  IN CASE type = "VALIDATION_ERROR" ->
            [withId EXCEPT !.metadata = [url |-> req.url, method |-> req.method]]
       [] type \in {"AUTHENTICATION_ERROR", "AUTHORIZATION_ERROR"} ->
            [withId EXCEPT !.metadata = [url |-> req.url, ip |-> req.ip]]
       [] type = "RATE_LIMIT_EXCEEDED" ->
            [withId EXCEPT !.metadata = [ip |-> req.ip, userAgent |-> req.userAgent]]
       [] type = "SECURITY_VIOLATION" ->
            [withId EXCEPT !.severity = "CRITICAL",
                           !.metadata = [ip |-> req.ip, userAgent |-> req.userAgent,
                                         url |-> req.url, method |-> req.method]]
       [] OTHER -> withId

NoError == [name |-> "", message |-> <<>>, stack |-> NoStack]
NoHandled == [source |-> "none", error |-> NoError, secureError |-> NoOptions]
NoErrReply == [status |-> 0, body |-> [error |-> [k \in {} |-> 0]]]
NoLogEntry == [level |-> "none", title |-> "", data |-> [k \in {} |-> 0]]

\* the module is loaded with process.env.NODE_ENV set to some value or unset
InitErrors ==
  /\ errEnv \in {envNODE_ENV(v) : v \in ProcessEnvValues}
  /\ errCount = 0
  /\ handled = NoHandled
  /\ errReply = NoErrReply
  /\ errLogged = NoLogEntry
  /\ exitTimers = 0
  /\ exited = FALSE

\* secureErrorHandler(error, request, reply)
secureErrorHandler(error, req) ==
  /\ ~exited
  /\ errCount < MaxErrors
  /\ LET secureError == createSecureError(errorTypeOf(error), error,
                                          errorOptionsOf(error, req), errCount)
     IN /\ handled' = [source |-> "request", error |-> error, secureError |-> secureError]
        /\ errLogged' = logSecureError(secureError, error, errEnv)
        /\ errReply' = sendSecureErrorResponse(secureError, errEnv)
  /\ errCount' = errCount + 1
  /\ UNCHANGED <<errEnv, exitTimers, exited>>
  /\ UNCHANGED outsideErrors

\* process.on('uncaughtException', ...)
UncaughtException(error) ==
  /\ ~exited
  /\ errCount < MaxErrors
  /\ LET secureError ==
           createSecureError("INTERNAL_SERVER_ERROR", error,
             [NoOptions EXCEPT !.severity = "CRITICAL",
                               !.metadata = [source |-> "uncaughtException"]], errCount)
     IN /\ handled' = [source |-> "uncaughtException", error |-> error,
                       secureError |-> secureError]
        /\ errLogged' = logSecureError(secureError, error, errEnv)
  /\ exitTimers' = IF errEnv = "production" THEN exitTimers + 1 ELSE exitTimers
  /\ errReply' = NoErrReply
  /\ errCount' = errCount + 1
  /\ UNCHANGED <<errEnv, exited>>
  /\ UNCHANGED outsideErrors

\* new Error(String(reason)) for a reason that is no Error
ErrorOfReason(reason) ==
  IF reason \in Errors THEN reason
  ELSE [name |-> "Error", message |-> reason, stack |-> StackOf(reason)]

\* process.on('unhandledRejection', ...): the reason is an Error or another value
UnhandledRejection(reason) ==
  /\ ~exited
  /\ errCount < MaxErrors
  /\ LET error == ErrorOfReason(reason)
         secureError ==
           createSecureError("INTERNAL_SERVER_ERROR", error,
             [NoOptions EXCEPT !.severity = "HIGH",
                               !.metadata = [source |-> "unhandledRejection",
                                             promise |-> "[object Promise]"]], errCount)
     IN /\ handled' = [source |-> "unhandledRejection", error |-> error,
                       secureError |-> secureError]
        /\ errLogged' = logSecureError(secureError, error, errEnv)
  /\ errReply' = NoErrReply
  /\ errCount' = errCount + 1
  /\ UNCHANGED <<errEnv, exitTimers, exited>>
  /\ UNCHANGED outsideErrors

\* a second after an uncaught exception in production: process.exit(1)
ExitTimerFires ==
  /\ ~exited
  /\ exitTimers > 0
  /\ exited' = TRUE
  /\ exitTimers' = 0
  /\ UNCHANGED <<errEnv, errCount, handled, errReply, errLogged>>
  /\ UNCHANGED outsideErrors

NextErrors ==
  \/ \E error \in Errors, req \in ErrorRequests : secureErrorHandler(error, req)
  \/ \E error \in Errors : UncaughtException(error)
  \/ \E reason \in Errors \cup {<<98, 111, 111, 109>>} : UnhandledRejection(reason)
  \/ ExitTimerFires

(***************************************************************************)
(* auth.service.ts: AuthService.generateTokens, verifyAccessToken,         *)
(* refreshAccessToken and logout; credentials-security.ts: SECURE_JWT_     *)
(* CONFIG.                                                                 *)
(***************************************************************************)
\* bound: seconds that pass in a run
MaxAuthClock == 1

Users == {"u1"}
RefreshCalls == {1, 2}           \* refreshAccessToken calls that may be in flight at once

\* config.JWT_EXPIRES_IN ('15m') and config.REFRESH_TOKEN_EXPIRES_IN ('7d'), in seconds
JWT_EXPIRES_IN == 15 * 60
REFRESH_TOKEN_EXPIRES_IN == 7 * 24 * 60 * 60

\* SECURE_JWT_CONFIG.secret()
SECURE_JWT_CONFIG_secret ==
  IF getSecretResult("jwt_primary") # NullValue THEN getSecretResult("jwt_primary")
  ELSE ConfigJwtSecret

\* jwt.sign(payload, secretOrPrivateKey, {expiresIn}) at time t: the token is a function
\* of the payload, of iat = t and exp = t + expiresIn, and of the key (HS256)
jwtSign(payload, key, expiresIn, t) ==
  [payload |-> payload, iat |-> t, exp |-> t + expiresIn, key |-> key]

\* jwt.verify(token, secretOrPublicKey) at time t: the signature is of that key and the
\* token has not expired
jwtVerify(token, key, t) == token.key = key /\ t < token.exp

\* the payloads generateTokens signs for a user
AccessPayload(u) == [userId |-> u, email |-> "u@x.fr", role |-> "USER"]
RefreshPayload(u) == [userId |-> u]

\* the key AuthService signs with (lines 44 and 51) and verifies with (lines 79 and 94)
SigningKey == ConfigJwtSecret
VerificationKey == ConfigJwtSecret

\* the tokens generateTokens(user) makes at time t
accessTokenOf(u, t) == jwtSign(AccessPayload(u), SigningKey, JWT_EXPIRES_IN, t)
refreshTokenOf(u, t) == jwtSign(RefreshPayload(u), SigningKey, REFRESH_TOKEN_EXPIRES_IN, t)

\* a token signed with another key
ForgedToken == jwtSign(RefreshPayload("u1"), NullValue, REFRESH_TOKEN_EXPIRES_IN, 0)

NoToken == jwtSign([userId |-> ""], NullValue, 0, 0)
NoEntry == [token |-> NoToken, expireAt |-> 0]
NoAuthRes == [op |-> "none", call |-> 0, ok |-> FALSE, given |-> NoToken, refreshToken |-> NoToken]
NoJwtUse == [op |-> "none", key |-> NullValue]

\* redis.setex(`refresh_token:${user.id}`, 7 * 24 * 60 * 60, refreshToken)
SetexRefreshToken(cache, u, token) ==
  [cache EXCEPT ![u] = [token |-> token, expireAt |-> authClock + 7 * 24 * 60 * 60]]

\* redis.del(`refresh_token:${userId}`)
DelRefreshToken(cache, u) == [cache EXCEPT ![u] = NoEntry]

InitAuth ==
  /\ authClock = 0
  /\ refreshCache = [u \in Users |-> NoEntry]
  /\ rpc = [c \in RefreshCalls |-> "idle"]
  /\ rtok = [c \in RefreshCalls |-> NoToken]
  /\ issued = {}
  /\ authRes = NoAuthRes
  /\ jwtUsed = NoJwtUse
  /\ refreshedOnce = {}
  /\ refreshedTwice = {}
  /\ loggedOut = [u \in Users |-> FALSE]

\* AuthService.generateTokens(user), called by login and register
generateTokens(u) ==
  /\ refreshCache' = SetexRefreshToken(refreshCache, u, refreshTokenOf(u, authClock))
  /\ issued' = issued \cup {accessTokenOf(u, authClock), refreshTokenOf(u, authClock)}
  /\ authRes' = [NoAuthRes EXCEPT !.op = "generateTokens", !.ok = TRUE,
                                  !.refreshToken = refreshTokenOf(u, authClock)]
  /\ jwtUsed' = [op |-> "sign", key |-> SigningKey]
  /\ loggedOut' = [loggedOut EXCEPT ![u] = FALSE]
  /\ UNCHANGED <<authClock, rpc, rtok, refreshedOnce, refreshedTwice>>
  /\ UNCHANGED outsideAuth

\* AuthService.verifyAccessToken(token)
verifyAccessToken(token) ==
  /\ authRes' = [NoAuthRes EXCEPT !.op = "verifyAccessToken", !.given = token,
                                  !.ok = jwtVerify(token, VerificationKey, authClock)]
  /\ jwtUsed' = [op |-> "verify", key |-> VerificationKey]
  /\ UNCHANGED <<authClock, refreshCache, rpc, rtok, issued, refreshedOnce, refreshedTwice,
                 loggedOut>>
  /\ UNCHANGED outsideAuth

\* refreshAccessToken throws: the catch logs and throws 'Refresh token invalide'
RefreshThrows(c, token) ==
  /\ authRes' = [NoAuthRes EXCEPT !.op = "refreshAccessToken", !.call = c, !.given = token]
  /\ rpc' = [rpc EXCEPT ![c] = "idle"]

\* refreshAccessToken(refreshToken), lines 92-97: jwt.verify, then await redis.get
RefreshStart(c, token) ==
  /\ rpc[c] = "idle"
  /\ \A d \in RefreshCalls : d < c => rpc[d] # "idle"
  /\ rtok' = [rtok EXCEPT ![c] = token]
  /\ jwtUsed' = [op |-> "verify", key |-> VerificationKey]
  /\ IF jwtVerify(token, VerificationKey, authClock)
       THEN /\ rpc' = [rpc EXCEPT ![c] = "get"]
            /\ authRes' = NoAuthRes
       ELSE RefreshThrows(c, token)
  /\ UNCHANGED <<authClock, refreshCache, issued, refreshedOnce, refreshedTwice, loggedOut>>
  /\ UNCHANGED outsideAuth

\* lines 97-100: the cache answers the get; the stored token must be the one given
RefreshGet(c) ==
  /\ rpc[c] = "get"
  /\ LET storedToken == refreshCache[rtok[c].payload.userId].token
     IN IF storedToken = NoToken \/ storedToken # rtok[c]
          THEN RefreshThrows(c, rtok[c])
          ELSE /\ rpc' = [rpc EXCEPT ![c] = "findUnique"]
               /\ authRes' = NoAuthRes
  /\ UNCHANGED <<authClock, refreshCache, rtok, issued, jwtUsed, refreshedOnce,
                 refreshedTwice, loggedOut>>
  /\ UNCHANGED outsideAuth

\* lines 103-109: await prisma.user.findUnique; the user exists
RefreshFindUser(c) ==
  /\ rpc[c] = "findUnique"
  /\ rpc' = [rpc EXCEPT ![c] = "del"]
  /\ authRes' = NoAuthRes
  /\ UNCHANGED <<authClock, refreshCache, rtok, issued, jwtUsed, refreshedOnce,
                 refreshedTwice, loggedOut>>
  /\ UNCHANGED outsideAuth

\* line 112: await redis.del(`refresh_token:${decoded.userId}`)
RefreshDel(c) ==
  /\ rpc[c] = "del"
  /\ refreshCache' = DelRefreshToken(refreshCache, rtok[c].payload.userId)
  /\ rpc' = [rpc EXCEPT ![c] = "generateTokens"]
  /\ authRes' = NoAuthRes
  /\ UNCHANGED <<authClock, rtok, issued, jwtUsed, refreshedOnce, refreshedTwice, loggedOut>>
  /\ UNCHANGED outsideAuth

\* line 115: return this.generateTokens(user): the new tokens are signed and the new
\* refresh token is stored; the call has succeeded
RefreshGenerateTokens(c) ==
  /\ rpc[c] = "generateTokens"
  /\ LET u == rtok[c].payload.userId
     IN /\ refreshCache' = SetexRefreshToken(refreshCache, u, refreshTokenOf(u, authClock))
        /\ issued' = issued \cup {accessTokenOf(u, authClock), refreshTokenOf(u, authClock)}
        /\ authRes' = [op |-> "refreshAccessToken", call |-> c, ok |-> TRUE,
                       given |-> rtok[c], refreshToken |-> refreshTokenOf(u, authClock)]
  /\ jwtUsed' = [op |-> "sign", key |-> SigningKey]
  /\ refreshedOnce' = refreshedOnce \cup {rtok[c]}
  /\ refreshedTwice' = IF rtok[c] \in refreshedOnce THEN refreshedTwice \cup {rtok[c]}
                       ELSE refreshedTwice
  /\ rpc' = [rpc EXCEPT ![c] = "idle"]
  /\ UNCHANGED <<authClock, rtok, loggedOut>>
  /\ UNCHANGED outsideAuth

\* AuthService.logout(userId)
logout(u) ==
  /\ refreshCache' = DelRefreshToken(refreshCache, u)
  /\ loggedOut' = [loggedOut EXCEPT ![u] = TRUE]
  /\ authRes' = [NoAuthRes EXCEPT !.op = "logout", !.ok = TRUE]
  /\ UNCHANGED <<authClock, rpc, rtok, issued, jwtUsed, refreshedOnce, refreshedTwice>>
  /\ UNCHANGED outsideAuth

\* a second passes; the cache drops the keys whose TTL has run out
AuthTick ==
  /\ authClock < MaxAuthClock
  /\ authClock' = authClock + 1
  /\ refreshCache' = [u \in Users |->
       IF refreshCache[u] # NoEntry /\ refreshCache[u].expireAt <= authClock'
         THEN NoEntry ELSE refreshCache[u]]
  /\ authRes' = NoAuthRes
  /\ UNCHANGED <<rpc, rtok, issued, jwtUsed, refreshedOnce, refreshedTwice, loggedOut>>
  /\ UNCHANGED outsideAuth

\* the refresh tokens a client can present: those it was given, and a forged one
PresentedTokens == {t \in issued : t.payload = RefreshPayload(t.payload.userId)} \cup {ForgedToken}

\* logins, refreshes (interleaved) and logouts
NextAuth ==
  \/ \E u \in Users : generateTokens(u)
  \/ \E c \in RefreshCalls, token \in PresentedTokens : RefreshStart(c, token)
  \/ \E c \in RefreshCalls : RefreshGet(c)
  \/ \E c \in RefreshCalls : RefreshFindUser(c)
  \/ \E c \in RefreshCalls : RefreshDel(c)
  \/ \E c \in RefreshCalls : RefreshGenerateTokens(c)
  \/ \E u \in Users : logout(u)
  \/ AuthTick

\* tokens signed and verified while the secret store rotates its secrets
NextJwt ==
  \/ \E u \in Users : generateTokens(u)
  \/ \E token \in issued \cup {ForgedToken} : verifyAccessToken(token)
  \/ \E n \in SecretNames : rotateSecret(n)
  \/ \E t \in timers : TimerFires(t)
  \/ TickStore
  \/ AuthTick

(***************************************************************************)
(* Specifications.                                                         *)
(***************************************************************************)
Init ==
  /\ InitRateLimit /\ InitSecrets /\ InitPII /\ InitSanitizers
  /\ InitDecrypt /\ InitClients /\ InitCors /\ InitOutcome /\ InitErrors /\ InitAuth

\* the rate limiter, requests interleaved, the cache failing at will
Next == NextRateLimit
Spec == Init /\ [][Next]_vars

\* the rate limiter, one request at a time, the cache up
SpecSeq == Init /\ [][NextSeq]_vars

\* the secret store
SpecSecrets == Init /\ [][NextSecrets]_vars

\* the PII cipher
SpecPII == Init /\ [][NextPII]_vars

\* the XSS sanitizer called again and again
SpecXSS == Init /\ [][NextXSS]_vars

\* the path sanitizer called again and again
SpecPaths == Init /\ [][NextPaths]_vars

\* the decrypt paths applied to values encryptPII did not make
SpecDecrypt == Init /\ [][NextDecrypt]_vars

\* ClientService creating and updating clients
SpecClients == Init /\ [][NextClients]_vars

\* ClientService creating and updating the clients of one freelancer
SpecEmails == Init /\ [][NextEmails]_vars

\* ClientService given request bodies with markup
SpecMarkup == Init /\ [][NextMarkup]_vars

\* the origin validation and the hooks of a request
SpecCors == Init /\ [][NextCors]_vars

\* the rate limiter followed by the route handlers, one request at a time
SpecOutcome == Init /\ [][NextOutcome]_vars

\* the error handlers
SpecErrors == Init /\ [][NextErrors]_vars

\* AuthService: logins, refreshes and logouts
SpecAuth == Init /\ [][NextAuth]_vars

\* AuthService signing and verifying while the secret store rotates
SpecJwt == Init /\ [][NextJwt]_vars

(***************************************************************************)
(* Properties of the rate limiter.                                         *)
(***************************************************************************)
\* the endpoint of the model that a URL belongs to (each URL has one method)
EndpointOfUrl(u) == CHOOSE e \in Endpoints : e.url = u
\* the category under which the requests recorded in window key k were admitted
CategoryOfKey(k) == getRateLimitType(EndpointOfUrl(k[2]).method, k[2])
limitOfKey(k) == RATE_LIMITS[CategoryOfKey(k)].maxRequests

\* requests recorded for client ip in category type with a timestamp later than
\* t - window(type), summed over the window keys ks
RECURSIVE AdmittedIn(_, _, _, _)
AdmittedIn(ks, ip, type, t) ==
  IF ks = {} THEN 0
  ELSE LET k == CHOOSE x \in ks : TRUE
           n == IF k[1] = ip /\ CategoryOfKey(k) = type
                  THEN Zcard(Zremrangebyscore(window[k], t - RATE_LIMITS[type].windowMs))
                  ELSE 0
       IN n + AdmittedIn(ks \ {k}, ip, type, t)

\* C1: once limit(K) requests of a client have been admitted in category K within
\* window(K), no further request of that client in K is admitted: the request that
\* exceeds is refused with 429 and leaves a block entry of block-duration(K), and
\* the block refuses requests only until that duration has elapsed.
\* (Stated as the specification has it; the limiter counts per URL, so it fails.)
C1_LimitPerCategory ==
  /\ \A p \in Procs :
       pc[p] = "zadd" =>
         AdmittedIn(Keys, rq[p].ip, limitTypeOf(rq[p]), now[p]) < limitsOf(rq[p]).maxRequests
  /\ out.error = "RATE_LIMIT_EXCEEDED" =>
       /\ out.code = 429
       /\ block[generateBlockKey(out.req.ip)].exists
       /\ block[generateBlockKey(out.req.ip)].duration = limitsOf(out.req).blockDuration
  /\ out.error = "IP_TEMPORARILY_BLOCKED" =>
       /\ block[generateBlockKey(out.req.ip)].exists
       /\ clock < block[generateBlockKey(out.req.ip)].blockedAt
                    + block[generateBlockKey(out.req.ip)].duration * 1000

\* C2: the rejection that creates a block reports a retry-after equal to the block
\* duration of the exceeded category, and the block it leaves refuses the next attempt.
\* (Stated as the specification has it; the code reports the window length.)
C2_RetryAfterIsBlockDuration ==
  out.error = "RATE_LIMIT_EXCEEDED" =>
    /\ out.retryAfter = limitsOf(out.req).blockDuration
    /\ isIPBlocked(out.req.ip, TRUE)

\* the block check of handler p answers in this step
BlockCheckBy(p) == pc[p] = "isBlocked" /\ pc'[p] # "isBlocked"
\* the request of handler p is refused in this step because of the block, at once:
\* 429, the handler returns, the cache is left as it was
DeniedByBlock(p) ==
  /\ out'.proc = p
  /\ out'.code = 429
  /\ out'.error = "IP_TEMPORARILY_BLOCKED"
  /\ pc'[p] = "idle"
  /\ UNCHANGED <<window, winExp, block>>

\* C3 (as stated): while a block entry exists for a client, every request of that
\* client is refused at its block check, whatever its category, URL or window count
\* and whatever the entry holds.
C3_BlockedAlwaysDenied ==
  [][\A p \in Procs :
       (BlockCheckBy(p) /\ block[generateBlockKey(rq[p].ip)].exists) => DeniedByBlock(p)]_vars

\* C3 (amended): while a block entry exists for a client, every request of that client
\* whose block check reaches the cache is refused at once, whatever its category, URL
\* or window count and whatever the entry holds.
C3_BlockedDeniedWhenCacheAnswers ==
  [][\A p \in Procs :
       (/\ BlockCheckBy(p)
        /\ block[generateBlockKey(rq[p].ip)].exists
        /\ "RATE_LIMIT_BLOCK_CHECK_ERROR" \notin out'.events) => DeniedByBlock(p)]_vars

\* C3 witness: a request is refused by a block left by another category, although the
\* window of its own URL is empty
C3_Witness ==
  /\ out.error = "IP_TEMPORARILY_BLOCKED"
  /\ block[generateBlockKey(out.req.ip)].reason # limitTypeOf(out.req)
  /\ window[rateLimitKeyOf(out.req)] = EmptyBag

\* every timestamp in the window of handler p's request lies within window(K) of its now
Fresh(p) ==
  \A e \in BagToSet(window[rateLimitKeyOf(rq[p])]) :
    e.score > windowStartOf(now[p], limitsOf(rq[p]))
\* another handler appends to the window key of handler p's request in this step
AppendByOther(p) ==
  \E q \in Procs \ {p} :
    /\ pc[q] = "zadd" /\ pc'[q] = "expire"
    /\ rateLimitKeyOf(rq[q]) = rateLimitKeyOf(rq[p])

\* C4 (as stated): at every limit check the window counted holds only timestamps
\* within the last window(K) milliseconds.
C4_CountOnlyFresh == \A p \in Procs : pc[p] = "zcard" => Fresh(p)

\* C4 (amended): the purge leaves only timestamps within the last window(K)
\* milliseconds, and until the count nothing but the append of another request in
\* flight on the same key adds an older one.
C4_CountFreshUnlessRaced ==
  [][\A p \in Procs :
       /\ (pc[p] = "zrem" /\ pc'[p] = "zcard") => Fresh(p)'
       /\ (pc[p] = "zcard" /\ pc'[p] = "zcard" /\ Fresh(p) /\ ~Fresh(p)') => AppendByOther(p)]_vars

\* C4 witness: a purge has removed an expired timestamp and the count comes next
C4_Witness ==
  \E p \in Procs : pc[p] = "zcard" /\ out.proc = p /\ out.purged > 0 /\ Fresh(p)

\* a cache command of handler p's window check fails in this step
WindowCheckFails(p) ==
  pc[p] \in {"zrem", "zcard", "zadd", "expire"} /\ out'.proc = p /\ out'.cacheError
\* the block check of handler p fails in this step
BlockCheckFails(p) == pc[p] = "isBlocked" /\ out'.proc = p /\ out'.cacheError

\* C5 (as stated): a request during which a cache command of the block check or of
\* the window check has failed is not refused with 429, and the failure is logged.
C5_FailureNeverDenied ==
  [][\A p \in Procs :
       /\ (WindowCheckFails(p) \/ BlockCheckFails(p)) => (out'.code = 0 /\ out'.events # {})
       /\ (out'.proc = p /\ out'.code = 429) => ~degraded[p]]_vars

\* C5 (amended): when a cache command of the window check fails, the request is let
\* through (no 429, the handler returns) and RATE_LIMIT_MIDDLEWARE_ERROR is logged; when
\* the block check fails, RATE_LIMIT_BLOCK_CHECK_ERROR is logged, the client is taken
\* as not blocked and the window check still decides.
C5_FailOpen ==
  [][\A p \in Procs :
       /\ WindowCheckFails(p) =>
            /\ out'.code = 0
            /\ "RATE_LIMIT_MIDDLEWARE_ERROR" \in out'.events
            /\ pc'[p] = "idle"
            /\ UNCHANGED <<window, winExp, block>>
       /\ BlockCheckFails(p) =>
            /\ out'.code = 0
            /\ "RATE_LIMIT_BLOCK_CHECK_ERROR" \in out'.events
            /\ pc'[p] = "zrem"
            /\ UNCHANGED <<window, winExp, block>>]_vars

\* C5 witness: a request is let through on a cache failure although its window is full
C5_Witness ==
  /\ "RATE_LIMIT_MIDDLEWARE_ERROR" \in out.events
  /\ out.code = 0
  /\ Zcard(window[rateLimitKeyOf(out.req)]) >= limitsOf(out.req).maxRequests

RotateStep(n) == res'.op = "rotateSecret" /\ res'.name = n

\* C7: rotateSecret on an active secret returns true; getSecret then returns a value,
\* different from the one it returned before; version and rotationCount are one
\* higher; type, createdAt and isActive are as before.
C7_RotateActive ==
  [][\A n \in SecretNames :
       (RotateStep(n) /\ IsActive(n)) =>
         /\ res'.ok
         /\ getSecretResult(n)' # NullValue
         /\ getSecretResult(n)' # getSecretResult(n)
         /\ secrets'[n].metadata.version = secrets[n].metadata.version + 1
         /\ secrets'[n].metadata.rotationCount = secrets[n].metadata.rotationCount + 1
         /\ secrets'[n].metadata.type = secrets[n].metadata.type
         /\ secrets'[n].metadata.createdAt = secrets[n].metadata.createdAt
         /\ secrets'[n].metadata.isActive = secrets[n].metadata.isActive]_vars

\* C7 witness: an active secret has just been rotated for the second time, later than
\* it was created, and getSecret returns the value drawn by that rotation
C7_Witness ==
  \E n \in SecretNames :
    /\ res.op = "rotateSecret" /\ res.name = n /\ res.ok
    /\ IsActive(n)
    /\ secrets[n].metadata.version = 3
    /\ secrets[n].metadata.rotationCount = 2
    /\ secrets[n].metadata.createdAt < secrets[n].metadata.lastRotatedAt
    /\ getSecretResult(n) = generateStrongSecret(secrets[n].metadata.type, nextRandom - 1)

\* C8: once a secret is revoked, getSecret returns null for it after every later
\* operation of the store, and no operation makes the secret active again.
\* (Stated as the specification has it; storeSecret on the name breaks it.)
C8_RevocationTerminal ==
  [][\A n \in SecretNames :
       IsRevoked(n) => (IsRevoked(n)' /\ getSecretResult(n)' = NullValue)]_vars

\* C9: before cleanup() a name has a pending rotation timer exactly when its secret
\* exists and is active, and never more than one; a revoked secret has no pending
\* timer, whatever was called since the revocation.
\* (Stated as the specification has it; rotateSecret on a revoked secret breaks it.)
C9_TimersOwned ==
  /\ ~cleanedUp => \A n \in SecretNames : HasTimer(n) <=> IsActive(n)
  /\ \A n \in SecretNames : Cardinality({t \in timers : t.name = n}) <= 1
  /\ \A n \in SecretNames : IsRevoked(n) => ~HasTimer(n)

(***************************************************************************)
(* Properties of the PII cipher.                                           *)
(***************************************************************************)
\* the code unit at place i of u is a surrogate without its other half
LoneAt(u, i) ==
  /\ IsSurrogate(u[i])
  /\ ~(IsHighSurrogate(u[i]) /\ i < Len(u) /\ IsLowSurrogate(u[i + 1]))
  /\ ~(IsLowSurrogate(u[i]) /\ i > 1 /\ IsHighSurrogate(u[i - 1]))

\* u with U+FFFD in the place of each lone surrogate
toWellFormed(u) == [i \in 1..Len(u) |-> IF LoneAt(u, i) THEN 65533 ELSE u[i]]

\* C10 (as stated): for every non-empty string P, decryptPII(encryptPII(P)) = P, and a
\* second encryptPII(P) gives another token.
C10_RoundTrip ==
  /\ (piiPc \in {"decrypted", "twice"} /\ piiPlain # <<>>) => piiDecrypted = piiPlain
  /\ (piiPc = "twice" /\ piiPlain # <<>>) => piiToken2 # piiToken

\* C10 (amended): for every non-empty string P without a lone surrogate,
\* decryptPII(encryptPII(P)) = P; with lone surrogates the result is P with U+FFFD in
\* their places; for every non-empty P a second encryptPII(P) gives another token.
C10_RoundTripWellFormed ==
  /\ (piiPc \in {"decrypted", "twice"} /\ piiPlain # <<>> /\ WellFormed(piiPlain)) =>
       piiDecrypted = piiPlain
  /\ (piiPc \in {"decrypted", "twice"} /\ piiPlain # <<>>) =>
       piiDecrypted = toWellFormed(piiPlain)
  /\ (piiPc = "twice" /\ piiPlain # <<>>) => piiToken2 # piiToken

\* C10 witness: the euro sign followed by U+1F600 has been encrypted twice and
\* decrypted; the tokens differ, the plaintext is back
C10_Witness ==
  /\ piiPc = "twice"
  /\ piiPlain = <<8364, 55357, 56832>>
  /\ piiDecrypted = piiPlain
  /\ piiToken # piiPlain
  /\ piiToken2 # piiToken

(***************************************************************************)
(* Properties of the client records and of the decrypt paths.              *)
(***************************************************************************)
\* C11: after any sequence of createClient and updateClient calls, every stored value
\* of a personal field is null or a token for which isEncrypted is true.
C11_StoredFieldsEncrypted ==
  \A id \in ClientIds :
    db[id] # NoClient =>
      \A f \in ClientFields : db[id][f] = NullField \/ isEncrypted(db[id][f])

\* C12: on a value that encryptPII did not make, every decrypt path (decryptPII,
\* decryptFields, decryptClient) returns without throwing and gives the value back
\* unchanged.
C12_ForeignValueUnchanged ==
  decRes.op # "none" => decRes.output = decRes.input

(***************************************************************************)
(* Properties of the origin validation and of the request hooks.           *)
(***************************************************************************)
\* the URLs a and b have the same scheme, host and port
SameSchemeHostPort(a, b) ==
  /\ a.ok /\ b.ok
  /\ a.protocol = b.protocol /\ a.hostname = b.hostname /\ a.port = b.port

\* origin has the scheme, host and port of an entry of the production allow-list
InProductionAllowList(origin) ==
  /\ origin # Absent
  /\ \E k \in 1..Len(PRODUCTION_ALLOWED_ORIGINS) :
       SameSchemeHostPort(ParseURL(origin), ParseURL(PRODUCTION_ALLOWED_ORIGINS[k]))

\* origin is a localhost or loopback origin on one of the development ports
IsLoopbackOnDevPort(origin) ==
  /\ origin # Absent
  /\ \E url \in {ParseURL(origin)} :
       /\ url.ok
       /\ url.hostname \in {<<108, 111, 99, 97, 108, 104, 111, 115, 116>>, <<49, 50, 55, 46, 48, 46, 48, 46, 49>>, <<91, 58, 58, 49, 93>>}
       /\ (IF url.port = <<>> THEN DefaultPort(SubSeq(url.protocol, 1, Len(url.protocol) - 1))
           ELSE DigitsValue(url.port)) \in DEV_ALLOWED_PORTS

\* C17: in production isOriginAllowed accepts an origin only if its scheme, host and
\* port are those of an entry of the production allow-list; any other origin, an
\* unparseable origin and an absent origin are rejected.
C17_ProductionAllowList ==
  (corsRes.called /\ config.NODE_ENV = "production" /\ corsRes.allowed)
    => InProductionAllowList(corsRes.origin)

\* C18: outside production a present origin is accepted exactly when it is a localhost
\* or loopback origin on an allowed development port or it equals an entry of the
\* production allow-list (so http://localhost:5173 is accepted and
\* http://evil.example.com is rejected).
C18_DevelopmentOrigins ==
  (corsRes.called /\ config.NODE_ENV \in {"development", "test"}
     /\ corsRes.origin # Absent)
    => (corsRes.allowed
          <=> (IsLoopbackOnDevPort(corsRes.origin) \/ InProductionAllowList(corsRes.origin)))

\* C19: a request with a forbidden method is always answered 405, and no origin
\* validation (isOriginAllowed, the Origin/Referer comparison) was made for it before.
C19_ForbiddenMethodRejectedFirst ==
  (stage = "done" /\ toUpperCase(request.method) \in FORBIDDEN_METHODS)
    => /\ reply.status = 405
       /\ \A i \in 1..Len(hookTrace) : hookTrace[i] \notin {"isOriginAllowed", "originReferer"}

\* C20: a request with a method other than GET, HEAD and OPTIONS on which the
\* middleware compares Origin and Referer, and whose two origins differ, is answered
\* 403 CORS_SECURITY_VIOLATION and reaches neither the rate limiter nor the handler;
\* a GET, HEAD or OPTIONS request is never answered so.
C20_OriginRefererMismatchRejected ==
  /\ ( /\ stage = "done"
       /\ \E i \in 1..Len(hookTrace) : hookTrace[i] = "originReferer"
       /\ ParseURL(request.origin).ok /\ ParseURL(request.referer).ok
       /\ ~SameSchemeHostPort(ParseURL(request.origin), ParseURL(request.referer)) )
       => /\ reply = [status |-> 403, code |-> "CORS_SECURITY_VIOLATION"]
          /\ \A i \in 1..Len(hookTrace) :
               hookTrace[i] \notin {"advancedRateLimitMiddleware", "handler"}
  /\ request.method \in {<<71, 69, 84>>, <<72, 69, 65, 68>>, <<79, 80, 84, 73, 79, 78, 83>>}
       => reply.code # "CORS_SECURITY_VIOLATION"

(***************************************************************************)
(* Properties of the content sanitizers.                                   *)
(***************************************************************************)
\* what a call sanitizeXSS(input) gives when no RegExp of the module has been used yet
freshSanitizeXSS(input) == sanitizeXSS(input, FreshLastIndex(XSS_PATTERNS))

\* what a call sanitizeFilePath(filePath) gives when no RegExp of the module has been
\* used yet
freshSanitizeFilePath(filePath) ==
  sanitizeFilePath(filePath, FreshLastIndex(DANGEROUS_PATH_PATTERNS))

\* C13: every call of sanitizeXSS on a string that contains a script element throws
\* and returns no value, whatever calls came before.
C13_ScriptRejected ==
  (sanRes.op = "sanitizeXSS" /\ ContainsScriptElement(sanRes.input)) => sanRes.threw

\* C14: the verdict of a call of sanitizeXSS or sanitizeFilePath (reject, or accept
\* with a given output) is the one the same input gets in a run where it is the first
\* call: it does not depend on the calls made before.
C14_VerdictIndependentOfHistory ==
  /\ sanRes.op = "sanitizeXSS" =>
       /\ sanRes.threw = freshSanitizeXSS(sanRes.input).threw
       /\ sanRes.value = freshSanitizeXSS(sanRes.input).value
  /\ sanRes.op = "sanitizeFilePath" =>
       /\ sanRes.isValid = freshSanitizeFilePath(sanRes.input).isValid
       /\ sanRes.value = freshSanitizeFilePath(sanRes.input).sanitized


\* number of times "25" is written at index i of s, one after the other
RECURSIVE CountEscapedPercent(_, _)
CountEscapedPercent(s, i) ==
  IF StartsWithAt(s, i, <<50, 53>>, FALSE) THEN 1 + CountEscapedPercent(s, i + 2) ELSE 0

\* where a dot written at index i of s ends, -1 if none is written there: the dot
\* itself, %2e, or %2e with its percent sign encoded again any number of times
DotEndAt(s, i) ==
  IF i >= Len(s) THEN -1
  ELSE IF s[i + 1] = 46 THEN i + 1
  ELSE IF s[i + 1] = 37 /\ StartsWithAt(s, i + 1 + 2 * CountEscapedPercent(s, i + 1), <<50, 101>>, TRUE)
    THEN i + 3 + 2 * CountEscapedPercent(s, i + 1)
  ELSE -1

\* the path contains '..', literally or percent-encoded (once or repeatedly)
ContainsTraversal(s) ==
  \E i \in 0..Len(s) : DotEndAt(s, i) # -1 /\ DotEndAt(s, DotEndAt(s, i)) # -1

\* C15: sanitizeFilePath rejects every path that contains '..' or a percent-encoded
\* form of it, and createSecurePath(base, '../../etc/passwd') returns null.
C15_TraversalRejected ==
  /\ (sanRes.op = "sanitizeFilePath" /\ ContainsTraversal(sanRes.input)) => ~sanRes.isValid
  /\ (sanRes.op = "createSecurePath" /\ sanRes.input = <<46, 46, 47, 46, 46, 47, 101, 116, 99, 47, 112, 97, 115, 115, 119, 100>>) =>
       sanRes.value = NullPath

\* C16: a path returned by createSecurePath(basePath, userPath) is a strict descendant
\* of the resolved basePath: not basePath itself, and inside the directory basePath.
C16_StrictDescendant ==
  (sanRes.op = "createSecurePath" /\ sanRes.value # NullPath) =>
    /\ sanRes.value # pathResolve1(sanRes.base)
    /\ startsWith(sanRes.value, pathResolve1(sanRes.base) \o <<47>>)

\* C24: an automatic rotation (the callback of a rotation timer) runs only when the
\* rotation interval of 30 days has elapsed since the secret was stored or last rotated.
C24_RotationAfterInterval ==
  [][\A t \in timers :
       TimerFires(t) /\ secrets[t.name].present =>
         (storeClock - secrets[t.name].metadata.lastRotatedAt) \div 1000
           >= SECRET_CONFIG.rotationIntervalSec]_vars

\* C27: a request to an auth endpoint that ends successfully leaves the auth window of
\* its client as it was when the request was counted, and no client whose auth requests
\* all ended successfully is refused by the limit of the auth category or blocked by it.
C27_SuccessfulAuthNotCounted ==
  /\ [][(RouteHandler(TRUE) /\ limitTypeOf(out.req) = "auth" /\ out.remaining >= 0) =>
          Zcard(window[rateLimitKeyOf(out.req)])
            = limitsOf(out.req).maxRequests - out.remaining - 1]_vars
  /\ []((out.code = 429 /\ out.error = "RATE_LIMIT_EXCEEDED" /\ limitTypeOf(out.req) = "auth")
          => authFailed)
  /\ [](\A ip \in Clients :
          (block[ip].exists /\ block[ip].reason = "auth") => authFailed)

\* C30: while a BlockEntry exists for a client, no step of a request of that client
\* changes the cache: the block, if still there, does not expire later than its creation
\* time plus the duration it was created with, and no rate window of the client is
\* purged or appended to, however the client's requests interleave.
C30_BlockedClientFrame ==
  [][\A ip \in Clients :
       (block[ip].exists /\ clock' = clock) =>
         /\ block'[ip].exists =>
              block'[ip].expireAt <= block[ip].blockedAt + block[ip].duration * 1000
         /\ \A k \in Keys : k[1] = ip => window'[k] = window[k]]_vars

(***************************************************************************)
(* Properties of ClientService: e-mail uniqueness and stored markup.       *)
(***************************************************************************)
\* C28: the e-mail of a client is unique per freelancer: a createClient with an e-mail
\* that a record already holds throws ('existe déjà') and creates no second record, so
\* when createClient has created a record with an e-mail no other record holds it.
C28_EmailUnique ==
  (clientRes.op = "createClient" /\ ~clientRes.threw /\ Truthy(clientRes.returned["email"]))
    => \A j \in ClientIds :
         (j # clientRes.id /\ db[j] # NoClient)
           => decryptClient(db[j])["email"] # clientRes.returned["email"]

\* s matches one of XSS_PATTERNS (tested on RegExp objects that were not used before)
MatchesXssPattern(s) ==
  firstMatching(XSS_PATTERNS, s, FreshLastIndex(XSS_PATTERNS)).hit # 0

\* C29: after any sequence of createClient and updateClient calls no record is stored
\* with active markup: the stored name and notes of every record match none of the
\* dangerous XSS patterns.
C29_NoStoredMarkup ==
  \A id \in ClientIds :
    db[id] # NoClient =>
      \A f \in {"name", "notes"} :
        db[id][f] \notin {Absent, NullField} => ~MatchesXssPattern(db[id][f])

(***************************************************************************)
(* Properties of the error handlers.                                       *)
(***************************************************************************)
\* C21: in production the response secureErrorHandler sends for an error has the status
\* ERROR_STATUS_CODES gives the type of the error, and a body that holds the error id,
\* the type, the generic user message of the type and a timestamp and nothing else:
\* not the message of the exception, the severity, the metadata or the stack.
C21_ProductionResponseGeneric ==
  (errEnv = "production" /\ handled.source = "request") =>
    /\ errReply.status = ERROR_STATUS_CODES[errorTypeOf(handled.error)]
    /\ DOMAIN errReply.body = {"error"}
    /\ DOMAIN errReply.body.error = {"id", "type", "message", "timestamp"}
    /\ errReply.body.error.id = handled.secureError.id
    /\ errReply.body.error.type = errorTypeOf(handled.error)
    /\ errReply.body.error.message = USER_ERROR_MESSAGES[errorTypeOf(handled.error)]
    /\ errReply.body.error.message # handled.error.message
    /\ errReply.body.error.timestamp = handled.secureError.timestamp

\* an error with a stack, classified as a security violation (severity critical), was
\* answered in production
C21_Witness ==
  /\ errEnv = "production" /\ handled.source = "request"
  /\ errorTypeOf(handled.error) = "SECURITY_VIOLATION"
  /\ handled.error.stack # NoStack
  /\ handled.secureError.severity = "CRITICAL"
  /\ errReply.status = 403

\* C22: an uncaught exception and an unhandled promise rejection are both classified as
\* internal with severity critical and logged, and in production, and only there, the
\* process is terminated after the logging of either event.
C22_ProcessLevelErrors ==
  handled.source \in {"uncaughtException", "unhandledRejection"} =>
    /\ handled.secureError.type = "INTERNAL_SERVER_ERROR"
    /\ handled.secureError.severity = "CRITICAL"
    /\ errLogged.level = "error" /\ errLogged.data.errorId = handled.secureError.id
    /\ (errEnv = "production") <=> (exitTimers > 0 \/ exited)

(***************************************************************************)
(* Properties of AuthService.                                              *)
(***************************************************************************)
\* C23: whenever AuthService signs or verifies a token, the key it hands to jwt.sign or
\* jwt.verify is the value getSecret('jwt_primary') returns at that moment, also after
\* rotations of the secret.
C23_KeyFetchedByName ==
  [][((\E u \in Users : generateTokens(u))
        \/ (\E token \in issued \cup {ForgedToken} : verifyAccessToken(token)))
       => jwtUsed'.key = getSecretResult("jwt_primary")']_vars

\* C25: no refresh token is accepted twice: with one token at most one
\* refreshAccessToken succeeds, be the calls one after the other or interleaved.
C25_RefreshTokenSingleUse == refreshedTwice = {}

\* C26: once logout(userId) has completed and no refreshAccessToken is in flight, the
\* cache holds no refresh token for that user, until the user logs in again.
C26_LogoutRevokes ==
  \A u \in Users :
    (loggedOut[u] /\ \A c \in RefreshCalls : rpc[c] = "idle") => refreshCache[u] = NoEntry

====
